---- MODULE Spec2Model ----
(***************************************************************************)
(* Model of the reconciliation engine of src/r2d_recon.py: deduplication   *)
(* by ACH id, two-pass debit matching, multi-strategy credit matching with *)
(* overpay linkage, note-driven debit matching, ReconTag overrides and the *)
(* per-claim revenue table.                                                *)
(*                                                                         *)
(* Conventions.  Amounts are whole cents (the loader rounds every amount   *)
(* to 2 decimals), dates are day numbers, a DataFrame is a sequence of     *)
(* records and the pandas index label of the k-th element of a sequence is *)
(* k-1 (a RangeIndex starts at 0).  Free text (descriptions, claimant      *)
(* names, notes) is a sequence of words; a regex is modelled by the words  *)
(* it accepts.  pandas sorts are stable for the table sizes modelled.      *)
(***************************************************************************)
EXTENDS Integers, Sequences, FiniteSets, TLC

VARIABLES
    pc,                     \* position of the run
    r2d,                    \* ledger as loaded (load_r2d)
    chase,                  \* bank statement as loaded (load_chase)
    ignore_debits_before,   \* optional cutoff argument of run
    r2d_dedup,              \* deduplicated ledger
    dup_removed,            \* removed-count of dedupe_by_ach_id
    ach_conflicts,          \* conflicts of validate_ach_id_conflicts
    d_match,                \* debit MatchRecords
    d_un,                   \* unmatched ledger entries (labels of r2d_dedup)
    d_orph,                 \* bank debits no debit MatchRecord uses (labels)
    used_debit_idx,         \* labels of the debits of d_match
    roll_pos,               \* next claim of roll_sorted the credit loop handles
    c_match,                \* credit MatchRecords (results)
    used_credit,            \* labels of consumed credits
    used_overpay_debit,     \* labels of linked overpay debits
    unmatched_claims,       \* claims without credit match
    over_adj,               \* overpay-adjustment table
    note_d,                 \* note-derived debit matches
    newly_used_debit,       \* labels of the debits of note_d
    credits_unmatched_final,\* CHASE_Unmatched_Credit rows (labels)
    debits_orphans_final,   \* CHASE_Unmatched_Debit rows (labels)
    per_claim_rev,          \* per-claim revenue table
    today,                  \* date.today() of the run (day number)
    note_c,                 \* note-derived credit matches
    newly_used_credit,      \* labels of the credits of note_c
    missing_recontags,      \* ReconTag report rows of the notes matcher
    note_events,            \* result of one extract_note_events call
    sheet_columns           \* columns the ledger sheet carries (load_r2d)

vars == <<pc, r2d, chase, ignore_debits_before, r2d_dedup, dup_removed,
          ach_conflicts, d_match, d_un, d_orph, used_debit_idx, roll_pos,
          c_match, used_credit, used_overpay_debit, unmatched_claims,
          over_adj, note_d, newly_used_debit, credits_unmatched_final,
          debits_orphans_final, per_claim_rev, today, note_c,
          newly_used_credit, missing_recontags, note_events, sheet_columns>>

(***************************************************************************)
(* Parameters (cents, days)                                                *)
(***************************************************************************)
DATE_WINDOW_DAYS == 10
DATE_WINDOW_DAYS_WIDE == 30
OVERPAY_BACKFILL_WINDOW == 7
NOTE_WINDOW_DAYS == 7
NOTE_WINDOW_DAYS_EXTENDED == 3
AMOUNT_TOL == 2
MAX_CONFIDENCE == 99

\* pd.NaT / NaN / None of a date or amount cell
NaT == -1
NaN == -1

(***************************************************************************)
(* Generic helpers                                                         *)
(***************************************************************************)
Abs(x) == IF x < 0 THEN -x ELSE x
Max2(a, b) == IF a >= b THEN a ELSE b
Min2(a, b) == IF a <= b THEN a ELSE b
Range(s) == {s[i] : i \in DOMAIN s}

SumOver(s, F(_)) ==
    LET f[k \in 0..Len(s)] == IF k = 0 THEN 0 ELSE f[k - 1] + F(s[k])
    IN  f[Len(s)]

\* list.sort / DataFrame.sort_values: stable, Lt is the strict order of the keys.
\* The element at position i moves behind the elements that sort before it and
\* behind the earlier elements that tie with it.
SortRank(s, i, Lt(_, _)) ==
    Cardinality({j \in DOMAIN s : Lt(s[j], s[i])})
    + Cardinality({j \in 1..(i - 1) : ~Lt(s[i], s[j]) /\ ~Lt(s[j], s[i])}) + 1

StableSort(s, Lt(_, _)) ==
    LET rank == [i \in DOMAIN s |-> SortRank(s, i, Lt)]
    IN  [p \in DOMAIN s |-> s[CHOOSE i \in DOMAIN s : rank[i] = p]]

\* the labels 0..n-1 of a table, in row order
Labels(df) == [k \in 1..Len(df) |-> k - 1]
At(df, label) == df[label + 1]

\* text: a sequence of words
HasWord(text, w) == \E i \in DOMAIN text : text[i] = w
HasPhrase(text, w1, w2) ==
    \E i \in DOMAIN text : i < Len(text) /\ text[i] = w1 /\ text[i + 1] = w2

(***************************************************************************)
(* Deduplicator and conflict detector                                      *)
(***************************************************************************)
\* the trailing words re.sub(r'\s*\(?(AFR\d*|Buyout.*|BuyoutCA)\)?$', '') strips
AfrBuyoutSuffix == {"(AFR)", "AFR", "(AFR2)", "AFR2", "(Buyout)", "Buyout", "(BuyoutCA)"}

BaseClaimant(claimant) ==
    IF claimant # <<>> /\ claimant[Len(claimant)] \in AfrBuyoutSuffix
    THEN SubSeq(claimant, 1, Len(claimant) - 1)
    ELSE claimant

HasAchId(row) == row.ach_id # ""

\* the rows of one ach_id group, in row order
AchGroup(df, ach) == SelectSeq(df, LAMBDA row : HasAchId(row) /\ row.ach_id = ach)

UniqueClaimIds(group) == {group[i].claim_id : i \in DOMAIN group} \ {0}
UniqueClaimants(group) == {group[i].claimant : i \in DOMAIN group} \ {<<>>}
BaseClaimants(group) == {BaseClaimant(c) : c \in UniqueClaimants(group)}

IsConflict(group) ==
    /\ Len(group) > 1
    /\ (Cardinality(UniqueClaimIds(group)) > 1 \/ Cardinality(BaseClaimants(group)) > 1)

\* the ach ids a ledger can carry, in the order of their strings
AchIds == <<"ACH1", "ACH2", "ACH3">>

\* with_id.groupby("ach_id"): the ach ids of the table, keys sorted
AchIdsOf(df) ==
    SelectSeq(AchIds, LAMBDA a : \E i \in DOMAIN df : df[i].ach_id = a)

ConflictOf(df, ach) ==
    LET group == AchGroup(df, ach)
    IN  [ach_id |-> ach,
         num_claims |-> IF Cardinality(UniqueClaimIds(group)) > 1
                        THEN Cardinality(UniqueClaimIds(group))
                        ELSE Cardinality(UniqueClaimants(group)),
         claims |-> group]

ConflictsOf(df, conflicting) ==
    [k \in 1..Len(conflicting) |-> ConflictOf(df, conflicting[k])]

validate_ach_id_conflicts(df) ==
    ConflictsOf(df, SelectSeq(AchIdsOf(df), LAMBDA a : IsConflict(AchGroup(df, a))))

\* variant of drop_duplicates: keep="last"
drop_duplicates_keep_last(df) ==
    SelectSeq([i \in DOMAIN df |->
                  IF \E j \in (i + 1)..Len(df) :
                        df[j].ach_id = df[i].ach_id /\ df[j].claim_id = df[i].claim_id
                  THEN [df[i] EXCEPT !.ach_id = "dropped"] ELSE df[i]],
              LAMBDA row : row.ach_id # "dropped")

\* DataFrame.drop_duplicates(subset=["ach_id","claim_id"], keep="first")
RECURSIVE drop_duplicates(_)
drop_duplicates(df) ==
    IF df = <<>> THEN <<>>
    ELSE LET rest == drop_duplicates(SubSeq(df, 1, Len(df) - 1))
             last == df[Len(df)]
         IN  IF \E i \in DOMAIN rest :
                    rest[i].ach_id = last.ach_id /\ rest[i].claim_id = last.claim_id
             THEN rest ELSE Append(rest, last)

\* pd.concat([kept, without_id], ignore_index=True), removed_count, conflicts
DedupeOutputs(df, with_id, kept) ==
    [df |-> kept \o SelectSeq(df, LAMBDA row : ~HasAchId(row)),
     removed_count |-> Len(with_id) - Len(kept),
     conflicts |-> validate_ach_id_conflicts(df)]

DedupeWithId(df, with_id) == DedupeOutputs(df, with_id, drop_duplicates(with_id))

dedupe_by_ach_id(df) == DedupeWithId(df, SelectSeq(df, HasAchId))

(***************************************************************************)
(* Bank transactions (load_chase): derived columns                         *)
(***************************************************************************)
is_debit(t) == t.amount < 0
is_credit(t) == t.amount > 0

\* TRANSFER_HINTS, OVERPAY_DEBIT_HINTS (case-insensitive; words in upper case)
has_hint(t) ==
    \/ \E w \in {"DWOLLA", "TRANSFER", "ACH", "TRN"} : HasWord(t.description, w)
    \/ HasPhrase(t.description, "ORIG", "ID")
overpay_hint(t) == \E w \in {"2670", "TRANSFER"} : HasWord(t.description, w)

HasTag(t) == t.recon_tag # 0

\* labels of the rows of a bank table that satisfy P, in row order
LabelsWhere(bank, P(_)) == SelectSeq(Labels(bank), LAMBDA k : P(At(bank, k)))

(***************************************************************************)
(* Debit matcher (match_debits_relaxed)                                    *)
(***************************************************************************)
LacksAmountOrDate(row) == row.amount_transferred = NaN \/ row.window_date = NaT

\* debits whose |amount| is within tolerance of amt and whose date is within
\* days of win, in row order
DebitCandidates(bank, amt, win, days) ==
    LabelsWhere(bank, LAMBDA t :
        /\ is_debit(t)
        /\ Abs(Abs(t.amount) - Abs(amt)) <= AMOUNT_TOL
        /\ t.posting_date >= win - days
        /\ t.posting_date <= win + days)

\* variant of Confidence: the sum is not capped at MAX_CONFIDENCE
ConfidenceUncapped(t, date_delta) ==
    50 + (IF has_hint(t) THEN 30 ELSE 0) + (IF date_delta <= 1 THEN 20 ELSE 0)

\* r2(min(0.5 + 0.3*hint + 0.2*(delta <= 1), MAX_CONFIDENCE)), in hundredths
Confidence(t, date_delta) ==
    Min2(50 + (IF has_hint(t) THEN 30 ELSE 0) + (IF date_delta <= 1 THEN 20 ELSE 0),
         MAX_CONFIDENCE)

DebitRecord(i, row, k, t, mtype) ==
    [r2d_index |-> i,
     chase_index |-> k,
     ach_id |-> row.ach_id,
     claim_id |-> row.claim_id,
     amount_transferred |-> row.amount_transferred,
     r2d_date |-> row.window_date,
     chase_date |-> t.posting_date,
     chase_amount |-> t.amount,
     description |-> t.description,
     date_delta |-> Abs(t.posting_date - row.window_date),
     confidence |-> Confidence(t, Abs(t.posting_date - row.window_date)),
     match_type |-> mtype]

\* variant of EntryCandidates: the first loop looks one day around the window date
EntryCandidatesWithinOneDay(bank, row) ==
    IF LacksAmountOrDate(row) THEN <<>>
    ELSE DebitCandidates(bank, row.amount_transferred, row.window_date, 1)

\* cand of one entry in the first loop; an entry without amount or date is skipped
EntryCandidates(bank, row) ==
    IF LacksAmountOrDate(row) THEN <<>>
    ELSE DebitCandidates(bank, row.amount_transferred, row.window_date, DATE_WINDOW_DAYS)

\* potential_matches.append(...) for every candidate debit of entry i
EntryPairs(bank, i, row, cand) ==
    [n \in 1..Len(cand) |->
        DebitRecord(i, row, cand[n], At(bank, cand[n]), "amount+window(+hints)")]

\* first loop: every (entry, debit) pair of the batch, entry by entry
PotentialMatches(dedup, bank) ==
    LET pairs[i \in 0..Len(dedup)] ==
            IF i = 0 THEN <<>>
            ELSE pairs[i - 1] \o
                 EntryPairs(bank, i - 1, dedup[i], EntryCandidates(bank, dedup[i]))
    IN  pairs[Len(dedup)]

\* key=lambda x: (-x["confidence"], x["date_delta"])
BetterMatch(a, b) ==
    \/ a.confidence > b.confidence
    \/ a.confidence = b.confidence /\ a.date_delta < b.date_delta

\* variant of SortMatches: the pairs stay in the order of insertion, entry by entry
MatchesAsCollected(potential_matches) == potential_matches

\* potential_matches.sort(...), stable
SortMatches(potential_matches) == StableSort(potential_matches, BetterMatch)

\* variant of AssignGreedy: the debit of a pair is not checked against used_debits
AssignWithoutDebitCheck(sorted) ==
    LET walk[n \in 0..Len(sorted)] ==
            IF n = 0 THEN [results |-> <<>>, used_claims |-> {}, used_debits |-> {}]
            ELSE LET st == walk[n - 1]
                     m == sorted[n]
                 IN  IF m.r2d_index \notin st.used_claims
                     THEN [results |-> Append(st.results, m),
                           used_claims |-> st.used_claims \cup {m.r2d_index},
                           used_debits |-> st.used_debits \cup {m.chase_index}]
                     ELSE st
    IN  walk[Len(sorted)]

\* greedy walk of the sorted pairs
AssignGreedy(sorted) ==
    LET walk[n \in 0..Len(sorted)] ==
            IF n = 0 THEN [results |-> <<>>, used_claims |-> {}, used_debits |-> {}]
            ELSE LET st == walk[n - 1]
                     m == sorted[n]
                 IN  IF m.r2d_index \notin st.used_claims
                        /\ m.chase_index \notin st.used_debits
                     THEN [results |-> Append(st.results, m),
                           used_claims |-> st.used_claims \cup {m.r2d_index},
                           used_debits |-> st.used_debits \cup {m.chase_index}]
                     ELSE st
    IN  walk[Len(sorted)]

\* if any(r["claim_id"] == row.get("claim_id") for r in results): continue
AlreadyMatched(results, row) ==
    \E n \in DOMAIN results : results[n].claim_id = row.claim_id

\* cand.sort_values(["has_hint","date_delta"], ascending=[False, True])
WideOrder(bank, win, a, b) ==
    LET ta == At(bank, a)
        tb == At(bank, b)
    IN  \/ has_hint(ta) /\ ~has_hint(tb)
        \/ has_hint(ta) = has_hint(tb)
           /\ Abs(ta.posting_date - win) < Abs(tb.posting_date - win)

\* cand of one entry in the second pass, hinted debits first, then nearest date
WideCandidates(bank, row) ==
    StableSort(DebitCandidates(bank, row.amount_transferred, row.window_date,
                               DATE_WINDOW_DAYS_WIDE),
               LAMBDA a, b : WideOrder(bank, row.window_date, a, b))

\* one entry of the second pass; free are its candidates not in used_debits
SecondPassEntry(bank, st, i, row, free) ==
    IF AlreadyMatched(st.results, row) THEN st
    ELSE IF LacksAmountOrDate(row) \/ free = <<>>
         THEN [st EXCEPT !.unmatched_idx = Append(@, i)]
    ELSE [results |-> Append(st.results,
                         DebitRecord(i, row, free[1], At(bank, free[1]),
                                     "amount+extended_window")),
          used_debits |-> st.used_debits \cup {free[1]},
          unmatched_idx |-> st.unmatched_idx]

\* second pass: wider window, entry by entry
SecondPass(dedup, bank, first) ==
    LET pass[i \in 0..Len(dedup)] ==
            IF i = 0
            THEN [results |-> first.results, used_debits |-> first.used_debits,
                  unmatched_idx |-> <<>>]
            ELSE SecondPassEntry(bank, pass[i - 1], i - 1, dedup[i],
                    SelectSeq(WideCandidates(bank, dedup[i]),
                              LAMBDA k : k \notin pass[i - 1].used_debits))
    IN  pass[Len(dedup)]

\* variant of DebitOutputs: the orphans are all debits, matched ones included
DebitOutputsKeepingUsed(dd, bank, second) ==
    [d_match |-> second.results,
     d_un |-> second.unmatched_idx,
     d_orph |-> Range(LabelsWhere(bank, is_debit)),
     dup_removed |-> dd.removed_count,
     used_debit_idx |-> {second.results[n].chase_index : n \in DOMAIN second.results},
     r2d_dedup |-> dd.df,
     ach_conflicts |-> dd.conflicts]

\* the tables match_debits_relaxed returns
DebitOutputs(dd, bank, second) ==
    [d_match |-> second.results,
     d_un |-> second.unmatched_idx,
     d_orph |-> Range(LabelsWhere(bank, is_debit))
                \ {second.results[n].chase_index : n \in DOMAIN second.results},
     dup_removed |-> dd.removed_count,
     used_debit_idx |-> {second.results[n].chase_index : n \in DOMAIN second.results},
     r2d_dedup |-> dd.df,
     ach_conflicts |-> dd.conflicts]

MatchDeduped(dd, bank) ==
    DebitOutputs(dd, bank,
        SecondPass(dd.df, bank, AssignGreedy(SortMatches(PotentialMatches(dd.df, bank)))))

match_debits_relaxed(ledger, bank) == MatchDeduped(dedupe_by_ach_id(ledger), bank)

(***************************************************************************)
(* Claim roll-up (canonical_parent, _prepare_credit_matching_data,         *)
(* _setup_priority_sorting)                                                *)
(***************************************************************************)
\* the dollar amounts "$X.XX" a note can carry, with their value r2(group)
DollarWords ==
    {"$5.00", "$7.00", "$90.00", "$100.00", "$46.76", "$30.22", "$206.94", "$212.65"}
DollarValue(w) ==
    CASE w = "$5.00" -> 500
      [] w = "$100.00" -> 10000
      [] w = "$7.00" -> 700
      [] w = "$90.00" -> 9000
      [] w = "$46.76" -> 4676
      [] w = "$30.22" -> 3022
      [] w = "$206.94" -> 20694
      [] w = "$212.65" -> 21265
IsDollar(w) == w \in DollarWords

\* OVERPAID_REGEX.search: "overpaid [by] $X" or "overpayment [of] $X", first match
OverpaidAt(notes, i) ==
    LET opt == IF notes[i] = "overpaid" THEN "by" ELSE "of"
    IN  IF notes[i] \notin {"overpaid", "overpayment"} THEN 0
        ELSE IF i + 1 <= Len(notes) /\ IsDollar(notes[i + 1]) THEN i + 1
        ELSE IF i + 2 <= Len(notes) /\ notes[i + 1] = opt /\ IsDollar(notes[i + 2])
             THEN i + 2
        ELSE 0

parse_overpaid_amount(notes) ==
    LET hits == {i \in DOMAIN notes : OverpaidAt(notes, i) # 0}
    IN  IF hits = {} THEN NaN
        ELSE LET first == CHOOSE i \in hits : \A j \in hits : i <= j
             IN  DollarValue(notes[OverpaidAt(notes, first)])

\* the distinct claim ids of the ledger, ascending (groupby sorts its keys)
ClaimIds(ledger) ==
    LET ids == {ledger[i].claim_id : i \in DOMAIN ledger}
        f[n \in 0..Cardinality(ids)] ==
            IF n = 0 THEN <<>>
            ELSE Append(f[n - 1],
                        CHOOSE c \in ids \ Range(f[n - 1]) :
                            \A d \in ids \ Range(f[n - 1]) : c <= d)
    IN  f[Cardinality(ids)]

ClaimRows(ledger, claim) == SelectSeq(ledger, LAMBDA row : row.claim_id = claim)

\* a date sorts before another, missing dates last (na_position="last")
DateBefore(a, b) == a # NaT /\ (b = NaT \/ a < b)

\* PAREN_SUFFIX.sub("", claimant): a trailing parenthetical is dropped
ParenWords == {"(AFR)", "(AFR2)", "(Buyout)", "(BuyoutCA)"}
StripParen(claimant) ==
    IF claimant # <<>> /\ claimant[Len(claimant)] \in ParenWords
    THEN SubSeq(claimant, 1, Len(claimant) - 1)
    ELSE claimant

\* deal_type.str.contains(r"\bafr", case=False)
is_afr(row) == row.deal_type \in {"AFR", "AFR2", "afr"}

canonical_parent(group) ==
    LET non_afr == SelectSeq(group, LAMBDA row : ~is_afr(row))
        candidates == IF non_afr # <<>> THEN non_afr ELSE group
        by_contract ==
            StableSort(candidates, LAMBDA a, b :
                \/ DateBefore(a.contract_date, b.contract_date)
                \/ a.contract_date = b.contract_date
                   /\ DateBefore(a.window_date, b.window_date))
        by_window ==
            StableSort(candidates, LAMBDA a, b : DateBefore(a.window_date, b.window_date))
        parent == IF \E i \in DOMAIN candidates : candidates[i].contract_date # NaT
                  THEN by_contract[1] ELSE by_window[1]
    IN  [parent EXCEPT !.claimant = StripParen(@)]

\* " | ".join(notes of the group)
JoinNotes(group) ==
    LET f[n \in 0..Len(group)] ==
            IF n = 0 THEN <<>>
            ELSE IF n = 1 THEN group[1].notes
            ELSE f[n - 1] \o <<"|">> \o group[n].notes
    IN  f[Len(group)]

\* column sum / max, missing cells skipped
SumCol(group, F(_)) == SumOver(group, LAMBDA row : IF F(row) = NaN THEN 0 ELSE F(row))
MaxCol(group, F(_)) ==
    LET vals == {F(group[i]) : i \in DOMAIN group} \ {NaN}
    IN  IF vals = {} THEN NaN ELSE CHOOSE v \in vals : \A u \in vals : v >= u

\* one row of the roll-up: the sums of the group and the parent's identity
RollRowOf(claim, group, parent) ==
    [claim_id |-> claim,
     repayment_sum |-> SumCol(group, LAMBDA row : row.repayment_amount),
     amount_to_funder_sum |-> SumCol(group, LAMBDA row : row.amount_to_funder),
     amount_transferred_sum |-> SumCol(group, LAMBDA row : row.amount_transferred),
     ref_date |-> MaxCol(group, LAMBDA row : row.window_date),
     overpaid_sum |-> MaxCol(group, LAMBDA row : parse_overpaid_amount(row.notes)),
     notes_any |-> JoinNotes(group),
     claimant |-> parent.claimant,
     deal_type |-> parent.deal_type,
     contract_date |-> parent.contract_date]

RollGroup(claim, group) == RollRowOf(claim, group, canonical_parent(group))

RollRow(ledger, claim) == RollGroup(claim, ClaimRows(ledger, claim))

RollRows(ledger, ids) == [n \in 1..Len(ids) |-> RollRow(ledger, ids[n])]

_prepare_credit_matching_data(ledger) == RollRows(ledger, ClaimIds(ledger))

transferred_repayment_diff(r) == Abs(r.repayment_sum - r.amount_transferred_sum)

\* sort_values(['repayment_group','transferred_repayment_diff'], ascending=[False, True])
PriorityBefore(a, b) ==
    \/ a.repayment_sum > b.repayment_sum
    \/ a.repayment_sum = b.repayment_sum
       /\ transferred_repayment_diff(a) < transferred_repayment_diff(b)

_setup_priority_sorting(roll) == StableSort(roll, PriorityBefore)

(***************************************************************************)
(* Credit matcher (match_credits_one_row_per_claim)                        *)
(***************************************************************************)
\* variant of chase_for_matching: tagged credits stay in the pool
chase_unfiltered(bank) == Labels(bank)

\* run: chase_for_matching drops the credits that carry a ReconTag
chase_for_matching(bank) ==
    LabelsWhere(bank, LAMBDA t : ~(is_credit(t) /\ HasTag(t)))

CreditLabels(bank, pool) == SelectSeq(pool, LAMBDA k : is_credit(At(bank, k)))
DebitLabels(bank, pool) == SelectSeq(pool, LAMBDA k : is_debit(At(bank, k)))

\* r2(overpaid_sum or 0.0) if notna else 0.0
OverX(r) == IF r.overpaid_sum = NaN THEN 0 ELSE r.overpaid_sum

\* max(DATE_WINDOW_DAYS, OVERPAY_BACKFILL_WINDOW) if over_x > AMOUNT_TOL else DATE_WINDOW_DAYS
WinDays(over_x) ==
    IF over_x > AMOUNT_TOL THEN Max2(DATE_WINDOW_DAYS, OVERPAY_BACKFILL_WINDOW)
    ELSE DATE_WINDOW_DAYS

\* cand: the credits inside the date window of the claim
CreditCand(bank, credits, ref_date, win_days) ==
    IF ref_date = NaT THEN credits
    ELSE SelectSeq(credits, LAMBDA k :
            /\ At(bank, k).posting_date >= ref_date - win_days
            /\ At(bank, k).posting_date <= ref_date + win_days)

DateDelta(t, ref_date) == IF ref_date = NaT THEN 0 ELSE Abs(t.posting_date - ref_date)

\* cand.sort_values([diff, "date_delta", "posting_date"]) for the target amount
NearestOrder(bank, target, ref_date, a, b) ==
    LET ta == At(bank, a)
        tb == At(bank, b)
        da == Abs(ta.amount - target)
        db == Abs(tb.amount - target)
    IN  \/ da < db
        \/ da = db /\ DateDelta(ta, ref_date) < DateDelta(tb, ref_date)
        \/ da = db /\ DateDelta(ta, ref_date) = DateDelta(tb, ref_date)
           /\ ta.posting_date < tb.posting_date

\* first row of the sorted candidates that is unconsumed and within tolerance
FirstQualifying(bank, sorted, target, used) ==
    LET ok == SelectSeq(sorted, LAMBDA k :
                  k \notin used /\ Abs(At(bank, k).amount - target) <= AMOUNT_TOL)
    IN  IF ok = <<>> THEN <<>> ELSE <<ok[1]>>

_try_match_repayment_plus_overpay(bank, cand, repayment_sum, over_x, ref_date, used) ==
    IF over_x <= AMOUNT_TOL THEN <<>>
    ELSE FirstQualifying(bank,
            StableSort(cand, LAMBDA a, b :
                NearestOrder(bank, repayment_sum + over_x, ref_date, a, b)),
            repayment_sum + over_x, used)

\* str.upper of the words a claimant name is made of
Upper(w) ==
    CASE w = "John" -> "JOHN"
      [] w = "Smith" -> "SMITH"
      [] w = "Mary" -> "MARY"
      [] w = "Jones" -> "JONES"
      [] w = "Jo" -> "JO"
      [] OTHER -> w

name_parts(claimant) ==
    SelectSeq([i \in DOMAIN claimant |-> Upper(claimant[i])], LAMBDA w : Len(w) > 2)

_try_match_fedwire_by_name(bank, credits, claimant, repayment_sum, used) ==
    LET parts == name_parts(claimant)
        fedwire == SelectSeq(credits, LAMBDA k : HasWord(At(bank, k).description, "FEDWIRE"))
        ok == SelectSeq(fedwire, LAMBDA k :
                  /\ k \notin used
                  /\ Abs(At(bank, k).amount - repayment_sum) <= AMOUNT_TOL
                  /\ \A i \in DOMAIN parts : HasWord(At(bank, k).description, parts[i]))
    IN  IF Len(parts) < 2 \/ ok = <<>> THEN <<>> ELSE <<ok[1]>>

_try_match_exact_repayment(bank, cand, repayment_sum, ref_date, used) ==
    FirstQualifying(bank,
        StableSort(cand, LAMBDA a, b : NearestOrder(bank, repayment_sum, ref_date, a, b)),
        repayment_sum, used)

\* `if chosen_idx:` -- the truth value of an index label: None and 0 are false
Truthy(chosen) == chosen # <<>> /\ chosen[1] # 0

\* dnear.sort_values(["overpay_hint","posting_date"], ascending=[False, True])
OverpayOrder(bank, a, b) ==
    LET ta == At(bank, a)
        tb == At(bank, b)
    IN  \/ overpay_hint(ta) /\ ~overpay_hint(tb)
        \/ overpay_hint(ta) = overpay_hint(tb) /\ ta.posting_date < tb.posting_date

\* variant of FirstUnused: used_overpay_debit is not consulted
FirstIgnoringUsed(bank, labels, used) ==
    LET sorted == StableSort(labels, LAMBDA a, b : OverpayOrder(bank, a, b))
    IN  IF sorted = <<>> THEN <<>> ELSE <<sorted[1]>>

FirstUnused(bank, labels, used) ==
    LET free == SelectSeq(StableSort(labels, LAMBDA a, b : OverpayOrder(bank, a, b)),
                          LAMBDA k : k \notin used)
    IN  IF free = <<>> THEN <<>> ELSE <<free[1]>>

\* variant of _find_overpay_debit: dwin is not restricted to the overpaid amount
_find_overpay_debit_any_amount(bank, debits, over_x, credit_date, ref_date, used) ==
    LET dnear_credit == SelectSeq(debits, LAMBDA k :
                    /\ At(bank, k).posting_date >= credit_date - DATE_WINDOW_DAYS
                    /\ At(bank, k).posting_date <= credit_date + DATE_WINDOW_DAYS)
        dnear_ref == SelectSeq(debits, LAMBDA k :
                    /\ At(bank, k).posting_date >= ref_date - OVERPAY_BACKFILL_WINDOW
                    /\ At(bank, k).posting_date <= ref_date + OVERPAY_BACKFILL_WINDOW)
        near == FirstUnused(bank, dnear_credit, used)
    IN  IF near # <<>> THEN near
        ELSE IF ref_date # NaT THEN FirstUnused(bank, dnear_ref, used)
        ELSE <<>>

_find_overpay_debit(bank, debits, over_x, credit_date, ref_date, used) ==
    LET dwin == SelectSeq(debits, LAMBDA k :
                    Abs(Abs(At(bank, k).amount) - over_x) <= AMOUNT_TOL)
        dnear_credit == SelectSeq(dwin, LAMBDA k :
                    /\ At(bank, k).posting_date >= credit_date - DATE_WINDOW_DAYS
                    /\ At(bank, k).posting_date <= credit_date + DATE_WINDOW_DAYS)
        dnear_ref == SelectSeq(dwin, LAMBDA k :
                    /\ At(bank, k).posting_date >= ref_date - OVERPAY_BACKFILL_WINDOW
                    /\ At(bank, k).posting_date <= ref_date + OVERPAY_BACKFILL_WINDOW)
        near == FirstUnused(bank, dnear_credit, used)
    IN  IF near # <<>> THEN near
        ELSE IF ref_date # NaT THEN FirstUnused(bank, dnear_ref, used)
        ELSE <<>>

\* what each strategy returns for the claim: <<>> (None) or <<label>>
StrategiesOn(bank, r, credits, cand, used) ==
    [a |-> _try_match_repayment_plus_overpay(bank, cand, r.repayment_sum, OverX(r),
                                             r.ref_date, used),
     b |-> _try_match_fedwire_by_name(bank, credits, r.claimant, r.repayment_sum, used),
     c |-> _try_match_exact_repayment(bank, cand, r.repayment_sum, r.ref_date, used)]

StrategiesOfCredits(bank, r, credits, used) ==
    StrategiesOn(bank, r, credits,
                 CreditCand(bank, credits, r.ref_date, WinDays(OverX(r))), used)

StrategyResults(bank, r, used) ==
    StrategiesOfCredits(bank, r, CreditLabels(bank, chase_for_matching(bank)), used)

\* the three strategies in priority order, as the loop body chains them:
\* a later strategy runs, and overwrites chosen_idx, if `not chosen_idx`
ChainStrategies(res) ==
    IF Truthy(res.a) THEN [chosen_idx |-> res.a, match_mode |-> "repayment_sum_plus_overpay"]
    ELSE IF Truthy(res.b) THEN [chosen_idx |-> res.b, match_mode |-> "fedwire_name_match"]
    ELSE IF Truthy(res.c) THEN [chosen_idx |-> res.c, match_mode |-> "repayment_sum"]
    ELSE [chosen_idx |-> res.c, match_mode |-> "None"]

ChooseCredit(bank, r, used) == ChainStrategies(StrategyResults(bank, r, used))

CreditRecord(bank, r, k, mode, over_debit) ==
    [claim_id |-> r.claim_id,
     claimant |-> r.claimant,
     repayment_sum |-> r.repayment_sum,
     amount_to_funder_sum |-> r.amount_to_funder_sum,
     ref_date |-> r.ref_date,
     match_type |-> mode,
     chase_index |-> k,
     chase_credit_date |-> At(bank, k).posting_date,
     chase_credit_amount |-> At(bank, k).amount,
     overpay_amount |-> IF mode = "repayment_sum_plus_overpay" THEN OverX(r) ELSE 0,
     overpay_debit |-> over_debit,
     overpay_debit_date |-> IF over_debit = <<>> THEN NaT
                            ELSE At(bank, over_debit[1]).posting_date]

roll_sorted == _setup_priority_sorting(_prepare_credit_matching_data(r2d))

(***************************************************************************)
(* Note event extractor (extract_note_events).  A note is a sequence of    *)
(* lower-case words; "$X.XX" is one word, "M/D" is one word, and a         *)
(* punctuation mark that follows a word is a word of its own.              *)
(***************************************************************************)
CONTEXT_CHARS == 120

\* DATE_IN_NOTES: the M/D words and the day of the year they name
DateWords == {"1/10", "1/13", "6/3", "7/15", "9/3", "9/10"}
DateValue(w) ==
    CASE w = "1/10" -> 10
      [] w = "1/13" -> 13
      [] w = "6/3" -> 154
      [] w = "7/15" -> 196
      [] w = "9/3" -> 246
      [] w = "9/10" -> 253

\* a date is the number of its day, days counted from the start of the year the
\* ledger and the bank statement lie in (year 0); leap days are left out
DAYS_PER_YEAR == 365
YearOf(day) == day \div DAYS_PER_YEAR
Timestamp(year, w) == year * DAYS_PER_YEAR + DateValue(w)

\* ref_date.year if ref_date is a date, else date.today().year
NoteYear(ref_date, run_date) ==
    IF ref_date # NaT THEN YearOf(ref_date) ELSE YearOf(run_date)

RemWords == {"rem", "rem.", "remaining"}

NextDollar(text, from) ==
    LET js == {j \in DOMAIN text : j >= from /\ IsDollar(text[j])}
    IN  IF js = {} THEN 0 ELSE CHOOSE j \in js : \A m \in js : j <= m

TwoWords(text, i, first, second) ==
    i + 1 <= Len(text) /\ text[i] \in first /\ text[i + 1] \in second

\* has_rem_received
has_rem_received(text) ==
    \E i \in DOMAIN text :
        \/ i + 2 <= Len(text) /\ text[i] \in RemWords /\ text[i + 1] = "repayment"
           /\ text[i + 2] = "received"
        \/ i + 2 <= Len(text) /\ text[i] = "received" /\ text[i + 1] \in {"rem", "rem."}
           /\ text[i + 2] = "repayment"

\* head of REQUESTED_REMAINING_REGEX at word i
RequestedHead(text, i) ==
    \/ TwoWords(text, i, {"req", "req.", "requested", "requesting"}, RemWords)
    \/ TwoWords(text, i, {"underpayment"}, {"of"})

\* head of RECEIVED_CHECK_REGEX at word i: the word its head ends at, 0 if none
ReceivedHeadEnd(text, i) ==
    LET checks == {c \in DOMAIN text : c > i /\ text[c] = "check"}
        check1 == CHOOSE c \in checks : \A d \in checks : c <= d
    IN  IF text[i] = "received" /\ checks # {} /\ NextDollar(text, check1 + 1) # 0
        THEN check1
        ELSE IF \/ TwoWords(text, i, {"rec", "rec.", "received"}, RemWords)
                \/ TwoWords(text, i, {"remaining"}, {"repayment"})
                \/ TwoWords(text, i, {"repayment"}, {"received"})
                \/ TwoWords(text, i, {"underpaid"}, {"by"})
                \/ TwoWords(text, i, {"received"}, {"for"})
        THEN i + 1
        ELSE 0

\* head of SEND_FUNDER_REGEX at word i
SendFunderHead(text, i) == TwoWords(text, i, {"send"}, {"funder"})

\* re.finditer: the matches [start, end] (word positions) found left to right,
\* each reaching lazily to the next dollar amount; which selects the regex
HeadEndOf(text, i, which) ==
    CASE which = "requested" -> IF RequestedHead(text, i) THEN i + 1 ELSE 0
      [] which = "received" -> ReceivedHeadEnd(text, i)
      [] which = "send_funder" -> IF SendFunderHead(text, i) THEN i + 1 ELSE 0

\* the word a match starting at word pos ends at (the next dollar amount), 0 if none
MatchEnd(text, he) == IF he = 0 THEN 0 ELSE NextDollar(text, he + 1)

RECURSIVE finditer(_, _, _)
MatchesFrom(text, pos, which, nd) ==
    IF nd = 0 THEN finditer(text, pos + 1, which)
    ELSE <<[start |-> pos, end |-> nd]>> \o finditer(text, nd + 1, which)

finditer(text, pos, which) ==
    IF pos > Len(text) THEN <<>>
    ELSE MatchesFrom(text, pos, which, MatchEnd(text, HeadEndOf(text, pos, which)))

\* a punctuation mark follows the word before it without a blank
Punctuation == {",", ".", ";"}

\* character offset of word i, words separated by one blank
RECURSIVE Offset(_, _)
Offset(text, i) ==
    IF i <= 1 THEN 0
    ELSE Offset(text, i - 1) + Len(text[i - 1])
         + (IF text[i] \in Punctuation THEN 0 ELSE 1)
EndOffset(text, i) == Offset(text, i) + Len(text[i])
TextLen(text) == IF text = <<>> THEN 0 ELSE EndOffset(text, Len(text))

\* CREDIT_KEYWORDS / DEBIT_KEYWORDS: a keyword starts at word i, ends at the word returned
CreditKeywordEnd(text, i) ==
    IF text[i] \in {"received", "deposit", "check", "credited", "incoming", "rcvd"} THEN i
    ELSE IF \/ TwoWords(text, i, {"rec", "rec."}, RemWords)
            \/ TwoWords(text, i, {"remaining"}, {"repayment", "bal", "balance"})
            \/ TwoWords(text, i, {"rem", "rem."}, {"bal", "balance"})
            \/ TwoWords(text, i, {"underpaid"}, {"by"})
    THEN i + 1 ELSE 0

DebitKeywordEnd(text, i) ==
    IF text[i] \in {"transfer", "transferred", "outgoing", "2670"} THEN i
    ELSE IF \/ TwoWords(text, i, {"send", "to"}, {"funder"})
            \/ TwoWords(text, i, {"ach"}, {"out"})
    THEN i + 1 ELSE 0

\* the keyword lies inside text[lo:hi]
InContext(text, i, kend, lo, hi) ==
    kend # 0 /\ Offset(text, i) >= lo /\ EndOffset(text, kend) <= hi

\* the generic scan of one dollar amount: "credit_expected", "debit_expected" or "none"
ClassifyDollar(text, j) ==
    LET lo == Max2(0, Offset(text, j) - CONTEXT_CHARS)
        hi == Min2(TextLen(text), EndOffset(text, j) + CONTEXT_CHARS)
        is_c == \E i \in DOMAIN text : InContext(text, i, CreditKeywordEnd(text, i), lo, hi)
        is_d == \E i \in DOMAIN text : InContext(text, i, DebitKeywordEnd(text, i), lo, hi)
    IN  IF is_c /\ ~is_d THEN "credit_expected"
        ELSE IF is_d /\ ~is_c THEN "debit_expected"
        ELSE "none"

\* match.group(0) contains 'send funder' or 'to funder'
SpansFunder(text, m) ==
    \E i \in m.start..(m.end - 1) : TwoWords(text, i, {"send", "to"}, {"funder"})

Event(kind, amount, anchor) == [kind |-> kind, amount |-> amount, anchor |-> anchor]

\* de-duplicate by (kind, amount), first occurrence wins
UniqueEvents(events) ==
    SelectSeq([n \in DOMAIN events |->
                 IF \E m \in 1..(n - 1) : events[m].kind = events[n].kind
                                          /\ events[m].amount = events[n].amount
                 THEN Event("dup", 0, NaT) ELSE events[n]],
              LAMBDA e : e.kind # "dup")

\* anchor: the last M/D date of the note in the given year, else ref_date
NoteAnchor(dates, ref_date, year) ==
    IF dates # <<>> THEN Timestamp(year, dates[Len(dates)]) ELSE ref_date

\* the amount each match of a regex captured
MatchAmounts(text, matches) == [n \in DOMAIN matches |-> DollarValue(text[matches[n].end])]

\* Priority 1: requested amounts become credits if a remainder was received
RequestedEvents(text, req_rem_amounts, anchor) ==
    IF has_rem_received(text)
    THEN [n \in DOMAIN req_rem_amounts |->
            Event("credit_expected", req_rem_amounts[n], anchor)]
    ELSE <<>>

\* Priority 2: the received matches; received_amounts grows while they are walked
ReceivedEvents(text, rec, from_req, anchor) ==
    LET walk[n \in 0..Len(rec)] ==
            IF n = 0 THEN [events |-> from_req,
                           received |-> {from_req[m].amount : m \in DOMAIN from_req}]
            ELSE LET st == walk[n - 1]
                     amt == DollarValue(text[rec[n].end])
                 IN  IF amt \in st.received \/ SpansFunder(text, rec[n]) THEN st
                     ELSE [events |-> Append(st.events, Event("credit_expected", amt, anchor)),
                           received |-> st.received \cup {amt}]
    IN  walk[Len(rec)]

\* Priority 3: send-funder amounts
SendFunderEvents(text, amounts, anchor, amounts_to_ignore) ==
    SelectSeq([n \in DOMAIN amounts |-> Event("debit_expected", amounts[n], anchor)],
              LAMBDA e : e.amount \notin amounts_to_ignore)

\* Priority 4: every dollar amount, classified by the keywords around it
GenericEvents(text, dollars, anchor, amounts_to_ignore) ==
    SelectSeq([n \in DOMAIN dollars |->
                  Event(ClassifyDollar(text, dollars[n]),
                        DollarValue(text[dollars[n]]), anchor)],
              LAMBDA e : e.kind # "none" /\ e.amount \notin amounts_to_ignore)

\* amounts_to_ignore = requested_rem_amounts - received_amounts
LaterEvents(text, anchor, amounts_to_ignore) ==
    SendFunderEvents(text, MatchAmounts(text, finditer(text, 1, "send_funder")),
                     anchor, amounts_to_ignore)
    \o GenericEvents(text, SelectSeq([j \in DOMAIN text |-> j],
                                     LAMBDA j : IsDollar(text[j])),
                     anchor, amounts_to_ignore)

EventsAfterReceived(text, anchor, req_rem_amounts, got) ==
    UniqueEvents(got.events
                 \o LaterEvents(text, anchor, Range(req_rem_amounts) \ got.received))

EventsAnchored(text, anchor, req_rem_amounts) ==
    EventsAfterReceived(text, anchor, req_rem_amounts,
        ReceivedEvents(text, finditer(text, 1, "received"),
                       RequestedEvents(text, req_rem_amounts, anchor), anchor))

\* run_date is the value of date.today() when the function is called
extract_note_events(text, ref_date, run_date) ==
    EventsAnchored(text,
        NoteAnchor(SelectSeq(text, LAMBDA w : w \in DateWords), ref_date,
                   NoteYear(ref_date, run_date)),
        MatchAmounts(text, finditer(text, 1, "requested")))

(***************************************************************************)
(* Notes matcher (match_from_notes)                                        *)
(***************************************************************************)
\* " | ".join of the non-empty notes of the group
JoinNonEmptyNotes(group) ==
    JoinNotes(SelectSeq(group, LAMBDA row : row.notes # <<>>))

NotesRollRow(ledger, claim) ==
    LET group == ClaimRows(ledger, claim)
    IN  [claim_id |-> claim,
         ref_date |-> MaxCol(group, LAMBDA row : row.window_date),
         notes_any |-> JoinNonEmptyNotes(group)]

\* the events of one claim, each with the roll-up row it belongs to
ClaimEvents(r, events) == [m \in DOMAIN events |-> [claim |-> r, event |-> events[m]]]

EventsOfClaim(r, run_date) ==
    ClaimEvents(r, extract_note_events(r.notes_any, r.ref_date, run_date))

\* every (claim, event) pair in the order the two nested loops visit them
EventsInOrder(ledger, ids, run_date) ==
    LET f[n \in 0..Len(ids)] ==
            IF n = 0 THEN <<>>
            ELSE f[n - 1] \o EventsOfClaim(NotesRollRow(ledger, ids[n]), run_date)
    IN  f[Len(ids)]

NoteEvents(ledger, run_date) == EventsInOrder(ledger, ClaimIds(ledger), run_date)

\* dnd: unconsumed debits within tolerance of amount and within days of centre
NoteDebitPool(bank, consumed, amount, centre, days) ==
    SelectSeq(LabelsWhere(bank, is_debit), LAMBDA k :
        /\ k \notin consumed
        /\ (centre = NaT \/ /\ At(bank, k).posting_date >= centre - days
                            /\ At(bank, k).posting_date <= centre + days)
        /\ Abs(Abs(At(bank, k).amount) - amount) <= AMOUNT_TOL)

\* dnd.sort_values("posting_date").iloc[0]
EarliestFirst(bank, labels) ==
    StableSort(labels, LAMBDA a, b : At(bank, a).posting_date < At(bank, b).posting_date)

ChooseNoteDebit(bank, consumed, amount, anchor_date, ref_date) ==
    LET dnd == NoteDebitPool(bank, consumed, amount, anchor_date, NOTE_WINDOW_DAYS)
        wide == NoteDebitPool(bank, consumed, amount, ref_date,
                              NOTE_WINDOW_DAYS + NOTE_WINDOW_DAYS_EXTENDED)
    IN  IF dnd # <<>> THEN <<EarliestFirst(bank, dnd)[1]>>
        ELSE IF ref_date # NaT /\ wide # <<>> THEN <<EarliestFirst(bank, wide)[1]>>
        ELSE <<>>

NoteDebitRecord(bank, claim, amount, k) ==
    [claim_id |-> claim,
     note_amount |-> amount,
     chase_index |-> k,
     matched_debit_date |-> At(bank, k).posting_date,
     matched_debit_amount |-> At(bank, k).amount,
     matched_debit_desc |-> At(bank, k).description]

\* one debit_expected event: the chosen debit, if any, is recorded and consumed
NoteEventStep(bank, st, ev, chosen) ==
    IF ev.event.kind = "debit_expected" /\ chosen # <<>>
    THEN [st EXCEPT
            !.note_d = Append(@, NoteDebitRecord(bank, ev.claim.claim_id,
                                                 ev.event.amount, chosen[1])),
            !.newly_used_debit = @ \cup {chosen[1]}]
    ELSE st

\* recontag_credits[claim_id]: the tagged credits of the claim, in bank order
recontag_credits(bank, claim) ==
    LabelsWhere(bank, LAMBDA t : is_credit(t) /\ HasTag(t) /\ t.recon_tag = claim)

\* cnd: unconsumed credits within tolerance of amount and within days of centre
NoteCreditPool(bank, consumed, amount, centre, days) ==
    SelectSeq(LabelsWhere(bank, is_credit), LAMBDA k :
        /\ k \notin consumed
        /\ (centre = NaT \/ /\ At(bank, k).posting_date >= centre - days
                            /\ At(bank, k).posting_date <= centre + days)
        /\ Abs(At(bank, k).amount - amount) <= AMOUNT_TOL)

\* potential_match: reported with a suggestion, never consumed
potential_match(bank, consumed, amount, anchor_date, ref_date) ==
    LET cnd == NoteCreditPool(bank, consumed, amount, anchor_date, NOTE_WINDOW_DAYS)
        wide == NoteCreditPool(bank, consumed, amount, ref_date,
                               NOTE_WINDOW_DAYS + NOTE_WINDOW_DAYS_EXTENDED)
    IN  IF cnd # <<>> THEN <<EarliestFirst(bank, cnd)[1]>>
        ELSE IF ref_date # NaT /\ wide # <<>> THEN <<EarliestFirst(bank, wide)[1]>>
        ELSE <<>>

\* a row of recontags_df (pd.concat of the matched and the suggested rows: a
\* column one kind of row lacks is NaN / NaT); claimant, note_excerpt and
\* action_needed are texts derived from the claim and are left out
ReconTagRow(status, claim, amount, matched, potential) ==
    [status |-> status,
     claim_id |-> claim,
     expected_amount |-> amount,
     matched_credit_amount |-> matched.amount,
     matched_credit_date |-> matched.posting_date,
     potential_chase_credit |-> potential.amount,
     potential_chase_date |-> potential.posting_date]

NoCredit == [amount |-> NaN, posting_date |-> NaT]

MatchedRows(bank, ev, tagged) ==
    [n \in DOMAIN tagged |->
        ReconTagRow("MATCHED", ev.claim.claim_id, ev.event.amount,
                    At(bank, tagged[n]), NoCredit)]

SuggestedRow(bank, ev, potential) ==
    ReconTagRow("SUGGESTED", ev.claim.claim_id, ev.event.amount, NoCredit,
                IF potential = <<>> THEN NoCredit ELSE At(bank, potential[1]))

\* variant of NoteCreditStep: the potential match of an event without tagged
\* credit is recorded as a note-derived credit match and consumed
NoteCreditStepAutoMatch(bank, st, ev, tagged, potential) ==
    IF tagged # <<>>
    THEN [st EXCEPT !.matched = @ \o MatchedRows(bank, ev, tagged)]
    ELSE IF potential # <<>>
    THEN [st EXCEPT
            !.note_c = Append(@, [claim_id |-> ev.claim.claim_id,
                                  note_amount |-> ev.event.amount,
                                  chase_index |-> potential[1]]),
            !.newly_used_credit = @ \cup {potential[1]}]
    ELSE [st EXCEPT !.suggested = Append(@, SuggestedRow(bank, ev, potential))]

\* one credit_expected event: report rows only, nothing is matched or consumed
NoteCreditStep(bank, st, ev, tagged, potential) ==
    IF tagged # <<>>
    THEN [st EXCEPT !.matched = @ \o MatchedRows(bank, ev, tagged)]
    ELSE [st EXCEPT !.suggested = Append(@, SuggestedRow(bank, ev, potential))]

NoteWalkStart ==
    [note_c |-> <<>>, note_d |-> <<>>, newly_used_credit |-> {},
     newly_used_debit |-> {}, matched |-> <<>>, suggested |-> <<>>]

MatchNoteEvents(evs, bank, used_credits, used_debits) ==
    LET walk[n \in 0..Len(evs)] ==
            IF n = 0 THEN NoteWalkStart
            ELSE IF evs[n].event.kind = "credit_expected"
            THEN NoteCreditStep(bank, walk[n - 1], evs[n],
                    recontag_credits(bank, evs[n].claim.claim_id),
                    potential_match(bank, used_credits, evs[n].event.amount,
                                    evs[n].event.anchor, evs[n].claim.ref_date))
            ELSE NoteEventStep(bank, walk[n - 1], evs[n],
                    ChooseNoteDebit(bank, used_debits \cup walk[n - 1].newly_used_debit,
                                    evs[n].event.amount, evs[n].event.anchor,
                                    evs[n].claim.ref_date))
    IN  walk[Len(evs)]

\* note_credit_df, note_debit_df, newly_used_credit, newly_used_debit, recontags_df
NotesOutput(st) ==
    [note_c |-> st.note_c,
     note_d |-> st.note_d,
     newly_used_credit |-> st.newly_used_credit,
     newly_used_debit |-> st.newly_used_debit,
     recontags_df |-> st.matched \o st.suggested]

match_from_notes(ledger, bank, used_credits, used_debits, run_date) ==
    NotesOutput(MatchNoteEvents(NoteEvents(ledger, run_date), bank,
                                used_credits, used_debits))

(***************************************************************************)
(* Revenue aggregator (compute_bank_revenue_per_claim) and ReconTag sums   *)
(***************************************************************************)
OverAdjRow(m) ==
    [claim_id |-> m.claim_id,
     credit_date |-> m.chase_credit_date,
     overpay_amount |-> m.overpay_amount,
     matched_debit_date |-> m.overpay_debit_date]

\* credit_matches[credit_matches["overpay_amount"] > AMOUNT_TOL]
OverAdjOf(matches) ==
    LET sel == SelectSeq(matches, LAMBDA m : m.overpay_amount > AMOUNT_TOL)
    IN  [n \in DOMAIN sel |-> OverAdjRow(sel[n])]

\* is_not_overpay_adj
IsNotOverpayAdj(dm, adj) ==
    ~\E n \in DOMAIN adj :
        /\ adj[n].claim_id = dm.claim_id
        /\ adj[n].matched_debit_date = dm.chase_date
        /\ adj[n].overpay_amount = Abs(dm.chase_amount)

\* OVERPAY_DESC_PATTERN "Online Transfer"
IsOverpayDesc(description) == HasPhrase(description, "ONLINE", "TRANSFER")

SumFor(table, claim, F(_)) ==
    SumOver(table, LAMBDA x : IF x.claim_id = claim THEN F(x) ELSE 0)

\* variant of RevenueRow: Book Revenue without the amount sent to the funder
RevenueRowBookGross(r, eff, funder) ==
    [repayment_sum |-> r.repayment_sum,
     amount_to_funder_sum |-> r.amount_to_funder_sum,
     bank_credits_effective |-> eff,
     bank_funder_debits |-> funder,
     bank_based_revenue |-> eff - funder,
     book_revenue |-> r.repayment_sum,
     check |-> (eff - funder) - r.repayment_sum]

RevenueRow(r, eff, funder) ==
    [repayment_sum |-> r.repayment_sum,
     amount_to_funder_sum |-> r.amount_to_funder_sum,
     bank_credits_effective |-> eff,
     bank_funder_debits |-> funder,
     bank_based_revenue |-> eff - funder,
     book_revenue |-> r.repayment_sum - r.amount_to_funder_sum,
     check |-> (eff - funder) - (r.repayment_sum - r.amount_to_funder_sum)]

compute_bank_revenue_per_claim(dm, cm, nd, roll, adj) ==
    LET filtered == SelectSeq(dm, LAMBDA x : IsNotOverpayAdj(x, adj))
        overpay_debits == SelectSeq(filtered, LAMBDA x : IsOverpayDesc(x.description))
        funder_debits == SelectSeq(filtered, LAMBDA x : ~IsOverpayDesc(x.description))
        ids == {roll[n].claim_id : n \in DOMAIN roll}
        RowOf(c) == roll[CHOOSE n \in DOMAIN roll : roll[n].claim_id = c]
    IN  [c \in ids |->
            RevenueRow(RowOf(c),
                SumFor(cm, c, LAMBDA x : x.chase_credit_amount)
                  - SumFor(overpay_debits, c, LAMBDA x : Abs(x.chase_amount))
                  - SumFor(adj, c, LAMBDA x : x.overpay_amount),
                SumFor(funder_debits, c, LAMBDA x : Abs(x.chase_amount))
                  + SumFor(nd, c, LAMBDA x : Abs(x.matched_debit_amount)))]

\* the rows of the table with Bank Credits (Effective) changed by delta(claim)
AdjustCredits(rev, delta(_)) ==
    [c \in DOMAIN rev |->
        LET eff == rev[c].bank_credits_effective + delta(c)
        IN  [rev[c] EXCEPT
                !.bank_credits_effective = eff,
                !.bank_based_revenue = eff - rev[c].bank_funder_debits,
                !.check = (eff - rev[c].bank_funder_debits) - rev[c].book_revenue]]

\* chase.loc[chase["is_credit"] & nonempty_tag]
TaggedCredits(bank) == LabelsWhere(bank, LAMBDA t : is_credit(t) /\ HasTag(t))
TaggedDebits(bank) == LabelsWhere(bank, LAMBDA t : is_debit(t) /\ HasTag(t))

\* variant of tagged_sum_by_claim: nothing is added for a claim that has a credit match
tagged_sum_unless_matched(bank, claim) ==
    IF \E n \in DOMAIN c_match : c_match[n].claim_id = claim THEN 0
    ELSE SumOver(TaggedCredits(bank),
                 LAMBDA k : IF At(bank, k).recon_tag = claim THEN At(bank, k).amount ELSE 0)

\* tagged.groupby("recon_tag")["amount"].sum()
tagged_sum_by_claim(bank, claim) ==
    SumOver(TaggedCredits(bank),
            LAMBDA k : IF At(bank, k).recon_tag = claim THEN At(bank, k).amount ELSE 0)

\* already_processed: (claim_id, overpay_amount) of the overpay adjustments
already_processed(adj) ==
    {<<adj[n].claim_id, Abs(adj[n].overpay_amount)>> :
        n \in {m \in DOMAIN adj : adj[m].claim_id # 0
                                  /\ Abs(adj[m].overpay_amount) > AMOUNT_TOL}}

\* variant of RemainingTaggedDebits: the already-processed pairs are not filtered out
AllTaggedDebits(bank, adj) == TaggedDebits(bank)

\* not_already_processed
RemainingTaggedDebits(bank, adj) ==
    SelectSeq(TaggedDebits(bank), LAMBDA k :
        <<At(bank, k).recon_tag, Abs(At(bank, k).amount)>> \notin already_processed(adj))

tagged_debit_sum_by_claim(bank, adj, claim) ==
    SumOver(RemainingTaggedDebits(bank, adj),
            LAMBDA k : IF At(bank, k).recon_tag = claim THEN Abs(At(bank, k).amount) ELSE 0)

(***************************************************************************)
(* Inputs                                                                  *)
(***************************************************************************)
MaxRows == 2
MaxTxns == 3
MaxDedupRows == 3

\* the columns of the ledger sheet whose absence is modelled; the sheet always
\* carries the other columns
LedgerColumns ==
    {"claim_id", "claimant", "amount_transferred", "transfer_initiated",
     "likely_arrived"}

\* date.today() of a run in the year of the data
RunDate == 300

LedgerRow(ach, claim, claimant, deal, win, repay, funder, transferred, notes) ==
    [ach_id |-> ach, claim_id |-> claim, claimant |-> claimant, deal_type |-> deal,
     contract_date |-> NaT, transfer_initiated |-> win, window_date |-> win,
     repayment_amount |-> repay, amount_to_funder |-> funder,
     amount_transferred |-> transferred, notes |-> notes]

RowSet ==
    { LedgerRow("ACH1", 1, <<"John", "Smith">>, "Standard", 10, 10000, 9000, 9000,
                <<"overpaid", "by", "$5.00">>),
      LedgerRow("ACH2", 2, <<"Mary", "Jones">>, "Standard", 10, 10000, 9000, 9000,
                <<"send", "funder", "$90.00", "overpaid", "by", "$5.00">>),
      LedgerRow("", 1, <<"John", "Smith", "(AFR)">>, "AFR", 13, 0, 0, 9000, <<>>),
      LedgerRow("ACH3", 3, <<"Jo", "Smith">>, "Standard", 10, 0, 0, NaN, <<>>) }

Txn(date, amount, description, tag) ==
    [posting_date |-> date, amount |-> amount, description |-> description,
     recon_tag |-> tag]

TxnSet ==
    { Txn(10, 10000, <<"DEPOSIT">>, 0),
      Txn(20, 10500, <<"DEPOSIT">>, 0),
      Txn(50, 10000, <<"FEDWIRE", "JOHN", "SMITH">>, 0),
      Txn(10, 10000, <<"DEPOSIT">>, 1),
      Txn(10, -9000, <<"ONLINE", "TRANSFER">>, 0),
      Txn(35, -9000, <<"WITHDRAWAL">>, 0),
      Txn(3, -500, <<"WITHDRAWAL">>, 0),
      Txn(10, -500, <<"2670">>, 1) }

SeqsUpTo(S, n) == UNION {[1..m -> S] : m \in 1..n}

(***************************************************************************)
(* The run (run): one action per stage, one per claim of the credit loop   *)
(***************************************************************************)
\* nothing is computed before the first stage
NoOutputs ==
    /\ r2d_dedup = <<>>
    /\ dup_removed = 0
    /\ ach_conflicts = <<>>
    /\ d_match = <<>>
    /\ d_un = <<>>
    /\ d_orph = {}
    /\ used_debit_idx = {}
    /\ roll_pos = 1
    /\ c_match = <<>>
    /\ used_credit = {}
    /\ used_overpay_debit = {}
    /\ unmatched_claims = <<>>
    /\ over_adj = <<>>
    /\ note_d = <<>>
    /\ newly_used_debit = {}
    /\ credits_unmatched_final = {}
    /\ debits_orphans_final = {}
    /\ per_claim_rev = <<>>
    /\ note_c = <<>>
    /\ newly_used_credit = {}
    /\ missing_recontags = <<>>
    /\ note_events = <<>>

Init ==
    /\ pc = "start"
    /\ r2d \in SeqsUpTo(RowSet, MaxRows)
    /\ chase \in SeqsUpTo(TxnSet, MaxTxns)
    /\ ignore_debits_before = NaT
    /\ today = RunDate
    /\ sheet_columns = LedgerColumns
    /\ NoOutputs

\* d_match, d_un, d_orph, dup, used_debit_idx, ach_id_conflicts = match_debits_relaxed(r2d, chase)
MatchDebits ==
    /\ pc = "start"
    /\ \E out \in {match_debits_relaxed(r2d, chase)} :
           /\ r2d_dedup' = out.r2d_dedup
           /\ dup_removed' = out.dup_removed
           /\ ach_conflicts' = out.ach_conflicts
           /\ d_match' = out.d_match
           /\ d_un' = out.d_un
           /\ d_orph' = out.d_orph
           /\ used_debit_idx' = out.used_debit_idx
    /\ pc' = "credits"
    /\ UNCHANGED <<sheet_columns, today, note_c, newly_used_credit, missing_recontags, note_events>>
    /\ UNCHANGED <<r2d, chase, ignore_debits_before, roll_pos, c_match, used_credit,
                   used_overpay_debit, unmatched_claims, over_adj, note_d,
                   newly_used_debit, credits_unmatched_final, debits_orphans_final,
                   per_claim_rev>>

\* the overpay debit linked to a Strategy A match at credit k, <<>> otherwise
OverpayDebitFor(bank, r, pick, used) ==
    IF pick.match_mode = "repayment_sum_plus_overpay" /\ OverX(r) > AMOUNT_TOL
    THEN _find_overpay_debit(bank, DebitLabels(bank, chase_for_matching(bank)),
                             OverX(r), At(bank, pick.chosen_idx[1]).posting_date,
                             r.ref_date, used)
    ELSE <<>>

\* one iteration of `for _, r in roll_sorted.iterrows()`
CreditStep ==
    /\ pc = "credits"
    /\ roll_pos <= Len(roll_sorted)
    /\ \E r \in {roll_sorted[roll_pos]} :
       \E pick \in {ChooseCredit(chase, r, used_credit)} :
       \E over_debit \in {OverpayDebitFor(chase, r, pick, used_overpay_debit)} :
           IF r.repayment_sum <= 0 \/ ~Truthy(pick.chosen_idx)
           THEN /\ unmatched_claims' = Append(unmatched_claims, r.claim_id)
                /\ UNCHANGED <<c_match, used_credit, used_overpay_debit>>
           ELSE /\ used_credit' = used_credit \cup {pick.chosen_idx[1]}
                /\ used_overpay_debit' = used_overpay_debit \cup Range(over_debit)
                /\ c_match' = Append(c_match,
                                     CreditRecord(chase, r, pick.chosen_idx[1],
                                                  pick.match_mode, over_debit))
                /\ UNCHANGED unmatched_claims
    /\ roll_pos' = roll_pos + 1
    /\ UNCHANGED <<sheet_columns, today, note_c, newly_used_credit, missing_recontags, note_events>>
    /\ UNCHANGED <<pc, r2d, chase, ignore_debits_before, r2d_dedup, dup_removed,
                   ach_conflicts, d_match, d_un, d_orph, used_debit_idx, over_adj,
                   note_d, newly_used_debit, credits_unmatched_final,
                   debits_orphans_final, per_claim_rev>>

\* the output tables of match_credits_one_row_per_claim; an empty credit_matches
\* has no "overpay_amount" column and the selection of over_adj raises KeyError
CreditsRaise ==
    /\ pc = "credits"
    /\ roll_pos > Len(roll_sorted)
    /\ c_match = <<>>
    /\ pc' = "raised"
    /\ UNCHANGED <<sheet_columns, today, note_c, newly_used_credit, missing_recontags, note_events>>
    /\ UNCHANGED <<r2d, chase, ignore_debits_before, r2d_dedup, dup_removed,
                   ach_conflicts, d_match, d_un, d_orph, used_debit_idx, roll_pos,
                   c_match, used_credit, used_overpay_debit, unmatched_claims,
                   over_adj, note_d, newly_used_debit, credits_unmatched_final,
                   debits_orphans_final, per_claim_rev>>

\* ... and, back in run, the overpay-linked debits leave the orphans
CreditsReturn ==
    /\ pc = "credits"
    /\ roll_pos > Len(roll_sorted)
    /\ c_match # <<>>
    /\ over_adj' = OverAdjOf(c_match)
    /\ credits_unmatched_final' =
          Range(CreditLabels(chase, chase_for_matching(chase))) \ used_credit
    /\ d_orph' = d_orph \ used_overpay_debit
    /\ pc' = "notes"
    /\ UNCHANGED <<sheet_columns, today, note_c, newly_used_credit, missing_recontags, note_events>>
    /\ UNCHANGED <<r2d, chase, ignore_debits_before, r2d_dedup, dup_removed,
                   ach_conflicts, d_match, d_un, used_debit_idx, roll_pos, c_match,
                   used_credit, used_overpay_debit, unmatched_claims, note_d,
                   newly_used_debit, debits_orphans_final, per_claim_rev>>

\* match_from_notes and the unmatched views that exclude note-derived uses
NotesPass ==
    /\ pc = "notes"
    /\ \E out \in {match_from_notes(r2d, chase, used_credit, used_debit_idx, today)} :
           /\ note_c' = out.note_c
           /\ note_d' = out.note_d
           /\ newly_used_credit' = out.newly_used_credit
           /\ newly_used_debit' = out.newly_used_debit
           /\ missing_recontags' = out.recontags_df
           /\ credits_unmatched_final' = credits_unmatched_final \ out.newly_used_credit
           /\ debits_orphans_final' = d_orph \ out.newly_used_debit
           /\ unmatched_claims' =
                 SelectSeq(unmatched_claims, LAMBDA c :
                     ~\E n \in DOMAIN out.note_c : out.note_c[n].claim_id = c)
    /\ pc' = "revenue"
    /\ UNCHANGED <<sheet_columns, today, note_events>>
    /\ UNCHANGED <<r2d, chase, ignore_debits_before, r2d_dedup, dup_removed,
                   ach_conflicts, d_match, d_un, d_orph, used_debit_idx, roll_pos,
                   c_match, used_credit, used_overpay_debit, over_adj,
                   per_claim_rev>>

\* tagged credits leave CHASE_Unmatched_Credit, the optional cutoff is applied and
\* the base per-claim revenue is computed
BaseRevenue ==
    /\ pc = "revenue"
    /\ credits_unmatched_final' = credits_unmatched_final \ Range(TaggedCredits(chase))
    /\ debits_orphans_final' =
          IF ignore_debits_before = NaT THEN debits_orphans_final
          ELSE {k \in debits_orphans_final :
                    ~(At(chase, k).posting_date < ignore_debits_before)}
    /\ d_un' =
          IF ignore_debits_before = NaT THEN d_un
          ELSE SelectSeq(d_un, LAMBDA i :
                    ~(At(r2d_dedup, i).transfer_initiated # NaT
                      /\ At(r2d_dedup, i).transfer_initiated < ignore_debits_before))
    /\ per_claim_rev' = compute_bank_revenue_per_claim(
                            d_match, c_match, note_d,
                            _prepare_credit_matching_data(r2d), over_adj)
    /\ pc' = "tag_credits"
    /\ UNCHANGED <<sheet_columns, today, note_c, newly_used_credit, missing_recontags, note_events>>
    /\ UNCHANGED <<r2d, chase, ignore_debits_before, r2d_dedup, dup_removed,
                   ach_conflicts, d_match, d_orph, used_debit_idx, roll_pos, c_match,
                   used_credit, used_overpay_debit, unmatched_claims, over_adj,
                   note_d, newly_used_debit>>

\* "Add ReconTagged credits to Bank Credits (Effective)"
AddTaggedCredits ==
    /\ pc = "tag_credits"
    /\ per_claim_rev' =
          AdjustCredits(per_claim_rev, LAMBDA c : tagged_sum_by_claim(chase, c))
    /\ pc' = "tag_debits"
    /\ UNCHANGED <<sheet_columns, today, note_c, newly_used_credit, missing_recontags, note_events>>
    /\ UNCHANGED <<r2d, chase, ignore_debits_before, r2d_dedup, dup_removed,
                   ach_conflicts, d_match, d_un, d_orph, used_debit_idx, roll_pos,
                   c_match, used_credit, used_overpay_debit, unmatched_claims,
                   over_adj, note_d, newly_used_debit, credits_unmatched_final,
                   debits_orphans_final>>

\* "Process ReconTagged debits (overpayment returns)"
SubtractTaggedDebits ==
    /\ pc = "tag_debits"
    /\ per_claim_rev' =
          AdjustCredits(per_claim_rev,
                        LAMBDA c : 0 - tagged_debit_sum_by_claim(chase, over_adj, c))
    /\ debits_orphans_final' =
          debits_orphans_final \ Range(RemainingTaggedDebits(chase, over_adj))
    /\ pc' = "done"
    /\ UNCHANGED <<sheet_columns, today, note_c, newly_used_credit, missing_recontags, note_events>>
    /\ UNCHANGED <<r2d, chase, ignore_debits_before, r2d_dedup, dup_removed,
                   ach_conflicts, d_match, d_un, d_orph, used_debit_idx, roll_pos,
                   c_match, used_credit, used_overpay_debit, unmatched_claims,
                   over_adj, note_d, newly_used_debit, credits_unmatched_final>>

Next ==
    \/ MatchDebits
    \/ CreditStep
    \/ CreditsRaise
    \/ CreditsReturn
    \/ NotesPass
    \/ BaseRevenue
    \/ AddTaggedCredits
    \/ SubtractTaggedDebits

Spec == Init /\ [][Next]_vars

(***************************************************************************)
(* Runs over ledgers whose notes announce credits and debits, on two run   *)
(* dates                                                                   *)
(***************************************************************************)
MaxNoteRows == 2
MaxNoteTxns == 3

\* date.today(): a day of the year of the data and the same day one year later
RunDates == {RunDate, RunDate + DAYS_PER_YEAR}

NoteRowSet ==
    { LedgerRow("ACH1", 1, <<"John", "Smith">>, "Standard", 10, 10000, 9000, 9000,
                <<"received", "check", "$100.00">>),
      LedgerRow("ACH2", 2, <<"Mary", "Jones">>, "Standard", 10, 10000, 9000, 9500,
                <<>>),
      LedgerRow("ACH3", 3, <<"Jo", "Smith">>, "Standard", NaT, 0, 0, NaN,
                <<"send", "funder", "$90.00", "1/10">>),
      LedgerRow("ACH3", 3, <<"Jo", "Smith">>, "Standard", 10, 10000, 9000, 9000,
                <<>>) }

NoteTxnSet ==
    { Txn(10, 10000, <<"DEPOSIT">>, 0),
      Txn(10, 10000, <<"DEPOSIT">>, 1),
      Txn(12, -9000, <<"WITHDRAWAL">>, 0),
      Txn(4, -9000, <<"WITHDRAWAL">>, 0) }

InitNotes ==
    /\ pc = "start"
    /\ r2d \in SeqsUpTo(NoteRowSet, MaxNoteRows)
    /\ chase \in SeqsUpTo(NoteTxnSet, MaxNoteTxns)
    /\ ignore_debits_before = NaT
    /\ today \in RunDates
    /\ sheet_columns = LedgerColumns
    /\ NoOutputs

SpecNotes == InitNotes /\ [][Next]_vars

(***************************************************************************)
(* The debit matcher on its own: transfers of 1000.00 initiated on day 10  *)
(* or day 14 and debits with and without transfer hint, near and far from  *)
(* the window date                                                         *)
(***************************************************************************)
MaxDebitRows == 2
MaxDebitTxns == 2

DebitRowSet ==
    { LedgerRow("ACH1", 1, <<"John", "Smith">>, "Standard", 10, 110000, 100000,
                100000, <<>>),
      LedgerRow("ACH2", 2, <<"Mary", "Jones">>, "Standard", 10, 110000, 100000,
                100000, <<>>),
      LedgerRow("ACH3", 3, <<"Jo", "Smith">>, "Standard", 14, 110000, 100000,
                100000, <<>>) }

DebitTxnSet ==
    { Txn(9, -100000, <<"ONLINE", "TRANSFER">>, 0),
      Txn(9, -100000, <<"WITHDRAWAL">>, 0),
      Txn(15, -100000, <<"ONLINE", "TRANSFER">>, 0),
      Txn(15, -100000, <<"WITHDRAWAL">>, 0),
      Txn(35, -100000, <<"ONLINE", "TRANSFER">>, 0) }

InitDebits ==
    /\ pc = "start"
    /\ r2d \in SeqsUpTo(DebitRowSet, MaxDebitRows)
    /\ chase \in SeqsUpTo(DebitTxnSet, MaxDebitTxns)
    /\ ignore_debits_before = NaT
    /\ today = RunDate
    /\ sheet_columns = LedgerColumns
    /\ NoOutputs

NextDebits == MatchDebits

SpecDebits == InitDebits /\ [][NextDebits]_vars

(***************************************************************************)
(* The credit matcher on its own: claims with and without overpay and      *)
(* credits that differ from the expected amounts by a cent, near and far   *)
(* from the reference date                                                 *)
(***************************************************************************)
MaxCreditRows == 2
MaxCreditTxns == 3

CreditRowSet ==
    { LedgerRow("ACH1", 1, <<"John", "Smith">>, "Standard", 10, 10000, 9000, 9000,
                <<"overpaid", "by", "$5.00">>),
      LedgerRow("ACH2", 2, <<"Mary", "Jones">>, "Standard", 10, 10000, 9000, 9000,
                <<>>) }

CreditTxnSet ==
    { Txn(20, 10500, <<"DEPOSIT">>, 0),
      Txn(10, 10501, <<"DEPOSIT">>, 0),
      Txn(18, 10000, <<"DEPOSIT">>, 0),
      Txn(10, 10001, <<"DEPOSIT">>, 0),
      Txn(10, -500, <<"ONLINE", "TRANSFER">>, 0) }

InitCredits ==
    /\ pc = "start"
    /\ r2d \in SeqsUpTo(CreditRowSet, MaxCreditRows)
    /\ chase \in SeqsUpTo(CreditTxnSet, MaxCreditTxns)
    /\ ignore_debits_before = NaT
    /\ today = RunDate
    /\ sheet_columns = LedgerColumns
    /\ NoOutputs

NextCredits ==
    \/ MatchDebits
    \/ CreditStep
    \/ CreditsRaise
    \/ CreditsReturn

SpecCredits == InitCredits /\ [][NextCredits]_vars

(***************************************************************************)
(* The note event extractor on its own: the notes of the regression tests  *)
(* and notes put together from a lead, a requested-remaining phrase and a  *)
(* tail                                                                    *)
(***************************************************************************)
\* "... req. rem. $46.76" and the note of the test it abbreviates
MiakleneNote == <<"...", "req.", "rem.", "$46.76">>
MiakleneNoteFull ==
    <<"repayment", "sent", "to", "dynamic", "less", "fees", ",", "lf", "paid",
      "principal", ",", "req.", "rem.", "$46.76">>

GeraldNote ==
    <<"rem", "repayment", "rcvd", "to", "send", "funder", "$206.94", "...",
      "underpaid", "by", "$212.65", ",", "req.", "rem.", "amount">>
GeraldNoteFull ==
    <<"9/10", ";", "repayment", "sent", "to", "thrivest", "less", "fees", ",",
      "rem", "repayment", "rcvd", "to", "send", "funder", "$206.94", ".",
      "7/15", ";", "thrivest", "received", ",", "adding", "to", "eom", "invoice",
      ",", "lf", "underpaid", "by", "$212.65", ",", "req.", "rem.", "amount">>

KarisNote ==
    <<"received", "rem", "repayment", "to", "send", "funder", "$30.22", "...",
      "req", "rem.", "$46.76", ".">>
KarisNoteFull ==
    <<"9/3", ";", "repayment", "sent", "to", "thrivest", "less", "fees", ",",
      "received", "rem", "repayment", "to", "send", "funder", "$30.22", ",",
      "6/3", ";", "repayment", "sent", "to", "thrivest", "less", "fees", "paid",
      "principal", "with", "no", "fees", ",", "req", "rem.", "$46.76", ".">>

TestNotes ==
    {MiakleneNote, MiakleneNoteFull, GeraldNote, GeraldNoteFull, KarisNote,
     KarisNoteFull}

NoteLeads ==
    { <<>>,
      <<"received", "check", ",">>,
      <<"rem", "repayment", "received", ",">>,
      <<"overpaid", "by", "$5.00", ",">>,
      <<"send", "funder", "$90.00", ",">> }

RequestedPhrases ==
    { <<"req.", "rem.", "$46.76">>,
      <<"requested", "rem", "$46.76">>,
      <<"req", "remaining", "$46.76">>,
      <<"requested", "remaining", "$46.76">>,
      <<"requested", "remaining", "repayment", "$46.76">>,
      <<"req.", "rem.", "amount">> }

NoteTails == { <<>>, <<"1/10">>, <<"deposit">> }

NoteTexts ==
    TestNotes \cup {lead \o phrase \o tail :
                        lead \in NoteLeads, phrase \in RequestedPhrases,
                        tail \in NoteTails}

\* one claim with one ledger row that carries the note; ref_date is its
\* window date, which may be missing
InitExtract ==
    /\ pc = "extract"
    /\ \E text \in NoteTexts, win \in {10, NaT} :
           r2d = <<LedgerRow("ACH1", 1, <<"John", "Smith">>, "Standard", win,
                             10000, 9000, 9000, text)>>
    /\ chase = <<>>
    /\ ignore_debits_before = NaT
    /\ today \in RunDates
    /\ sheet_columns = LedgerColumns
    /\ NoOutputs

\* events = extract_note_events(r["notes_any"], r["ref_date"])
ExtractNoteEvents ==
    /\ pc = "extract"
    /\ note_events' = extract_note_events(r2d[1].notes, r2d[1].window_date, today)
    /\ pc' = "extracted"
    /\ UNCHANGED <<r2d, chase, ignore_debits_before, r2d_dedup, dup_removed,
                   ach_conflicts, d_match, d_un, d_orph, used_debit_idx, roll_pos,
                   c_match, used_credit, used_overpay_debit, unmatched_claims,
                   over_adj, note_d, newly_used_debit, credits_unmatched_final,
                   debits_orphans_final, per_claim_rev, today, note_c,
                   newly_used_credit, missing_recontags, sheet_columns>>

NextExtract == ExtractNoteEvents

SpecExtract == InitExtract /\ [][NextExtract]_vars

(***************************************************************************)
(* The run from the loading of the ledger sheet on, over sheets that lack  *)
(* columns                                                                 *)
(***************************************************************************)
\* required = ["claim_id", "claimant"]
required == {"claim_id", "claimant"}

\* colmap: the required keys no column of the sheet matches
missing_required(columns) == required \ columns

\* the cells of one sheet row; the sheet row is given in the shape of a ledger
\* row, its window_date cell holding the likely-arrived date.  A column the
\* sheet lacks yields None / NaT, and window_date is
\* likely_arrived.fillna(transfer_initiated)
LoadedRow(row, columns) ==
    LET likely_arrived == IF "likely_arrived" \in columns THEN row.window_date ELSE NaT
        transfer_initiated ==
            IF "transfer_initiated" \in columns THEN row.transfer_initiated ELSE NaT
    IN  [row EXCEPT
            !.amount_transferred =
                IF "amount_transferred" \in columns THEN @ ELSE NaN,
            !.transfer_initiated = transfer_initiated,
            !.window_date =
                IF likely_arrived # NaT THEN likely_arrived ELSE transfer_initiated]

load_r2d(sheet, columns) == [i \in DOMAIN sheet |-> LoadedRow(sheet[i], columns)]

MaxLoadRows == 2
MaxLoadTxns == 2

LoadRowSet ==
    { LedgerRow("ACH1", 1, <<"John", "Smith">>, "Standard", 10, 10000, 9000, 9000,
                <<>>),
      LedgerRow("ACH2", 2, <<"Mary", "Jones">>, "Standard", 10, 10500, 9000, 9000,
                <<>>) }

LoadTxnSet ==
    { Txn(10, 10000, <<"DEPOSIT">>, 0),
      Txn(10, -9000, <<"ONLINE", "TRANSFER">>, 0) }

\* the sheets: complete, or lacking one or more of the columns
ColumnChoices ==
    { LedgerColumns,
      LedgerColumns \ {"claim_id"},
      LedgerColumns \ {"amount_transferred"},
      LedgerColumns \ {"likely_arrived"},
      LedgerColumns \ {"likely_arrived", "transfer_initiated"} }

InitLoad ==
    /\ pc = "load"
    /\ r2d \in SeqsUpTo(LoadRowSet, MaxLoadRows)
    /\ chase \in SeqsUpTo(LoadTxnSet, MaxLoadTxns)
    /\ ignore_debits_before = NaT
    /\ today = RunDate
    /\ sheet_columns \in ColumnChoices
    /\ NoOutputs

\* r2d = load_r2d(file_path, r2d_sheet): colmap raises ValueError when a required
\* column is missing
LoadR2d ==
    /\ pc = "load"
    /\ IF missing_required(sheet_columns) # {}
       THEN pc' = "raised" /\ r2d' = r2d
       ELSE pc' = "start" /\ r2d' = load_r2d(r2d, sheet_columns)
    /\ UNCHANGED <<chase, ignore_debits_before, r2d_dedup, dup_removed,
                   ach_conflicts, d_match, d_un, d_orph, used_debit_idx, roll_pos,
                   c_match, used_credit, used_overpay_debit, unmatched_claims,
                   over_adj, note_d, newly_used_debit, credits_unmatched_final,
                   debits_orphans_final, per_claim_rev, today, note_c,
                   newly_used_credit, missing_recontags, note_events,
                   sheet_columns>>

NextLoad ==
    \/ LoadR2d
    \/ Next

SpecLoad == InitLoad /\ [][NextLoad]_vars

(***************************************************************************)
(* The deduplicator on its own: ledgers whose rows share ach ids           *)
(***************************************************************************)
DedupRowSet ==
    { LedgerRow("ACH1", 1, <<"John", "Smith">>, "Standard", 10, 10000, 9000, 9000, <<>>),
      LedgerRow("ACH1", 1, <<"John", "Smith", "(AFR)">>, "AFR", 10, 0, 0, 9000, <<>>),
      LedgerRow("ACH1", 1, <<"Mary", "Jones">>, "Standard", 10, 10000, 9000, 9000, <<>>),
      LedgerRow("ACH1", 2, <<"John", "Smith">>, "Standard", 10, 10000, 9000, 9000, <<>>),
      LedgerRow("ACH2", 0, <<"Mary", "Jones">>, "Standard", 10, 10000, 9000, 9000, <<>>),
      LedgerRow("", 1, <<"John", "Smith">>, "Standard", 10, 10000, 9000, 9000, <<>>) }

InitDedup ==
    /\ pc = "dedup"
    /\ r2d \in SeqsUpTo(DedupRowSet, MaxDedupRows)
    /\ chase = <<>>
    /\ ignore_debits_before = NaT
    /\ today = RunDate
    /\ sheet_columns = LedgerColumns
    /\ NoOutputs

\* r2d_dedup, dup_removed, ach_id_conflicts = dedupe_by_ach_id(r2d)
Dedupe ==
    /\ pc = "dedup"
    /\ \E out \in {dedupe_by_ach_id(r2d)} :
           /\ r2d_dedup' = out.df
           /\ dup_removed' = out.removed_count
           /\ ach_conflicts' = out.conflicts
    /\ pc' = "deduped"
    /\ UNCHANGED <<sheet_columns, today, note_c, newly_used_credit, missing_recontags, note_events>>
    /\ UNCHANGED <<r2d, chase, ignore_debits_before, d_match, d_un, d_orph,
                   used_debit_idx, roll_pos, c_match, used_credit, used_overpay_debit,
                   unmatched_claims, over_adj, note_d, newly_used_debit,
                   credits_unmatched_final, debits_orphans_final, per_claim_rev>>

NextDedup == Dedupe

SpecDedup == InitDedup /\ [][NextDedup]_vars

(***************************************************************************)
(* Properties                                                              *)
(***************************************************************************)
\* the companion overpay debits linked by the credit match records
OverpayLinks == UNION {Range(c_match[n].overpay_debit) : n \in DOMAIN c_match}

\* C1 Conservation: after a full run no bank debit consumed by a debit match
\* record (pass 1 or pass 2), by an overpay link or by a note-derived debit match
\* is among the CHASE_Unmatched_Debit rows, and no bank credit consumed by a
\* credit match record is among the CHASE_Unmatched_Credit rows.
Conservation ==
    pc = "done" =>
        /\ \A n \in DOMAIN d_match : d_match[n].chase_index \notin debits_orphans_final
        /\ \A k \in OverpayLinks : k \notin debits_orphans_final
        /\ \A n \in DOMAIN note_d : note_d[n].chase_index \notin debits_orphans_final
        /\ \A n \in DOMAIN c_match : c_match[n].chase_index \notin credits_unmatched_final

\* a finished run that consumed a debit by a debit match, a debit by an overpay
\* link and a credit by a credit match
ConservationWitness ==
    /\ pc = "done"
    /\ d_match # <<>>
    /\ OverpayLinks # {}
    /\ c_match # <<>>

\* C2 At-most-one primary consumption: each bank debit is referenced by at most
\* one record among the debit match records of pass 1, pass 2 and the notes
\* matcher, each deduplicated ledger entry has at most one debit match record,
\* each bank credit is referenced by at most one credit match record and each
\* claim has at most one credit match record.
AtMostOnePrimary ==
    /\ \A m, n \in DOMAIN d_match :
          m # n => /\ d_match[m].chase_index # d_match[n].chase_index
                   /\ d_match[m].r2d_index # d_match[n].r2d_index
    /\ \A m, n \in DOMAIN note_d : m # n => note_d[m].chase_index # note_d[n].chase_index
    /\ \A m \in DOMAIN d_match : \A n \in DOMAIN note_d :
          d_match[m].chase_index # note_d[n].chase_index
    /\ \A m, n \in DOMAIN c_match :
          m # n => /\ c_match[m].chase_index # c_match[n].chase_index
                   /\ c_match[m].claim_id # c_match[n].claim_id

\* a finished run with a debit match, a note-derived debit match and a credit match
AtMostOnePrimaryWitness ==
    /\ pc = "done"
    /\ d_match # <<>>
    /\ note_d # <<>>
    /\ c_match # <<>>

\* the first strategy, in priority order, that found a credit for the claim
FirstSuccessful(res) ==
    IF res.a # <<>> THEN [found |-> res.a, mode |-> "repayment_sum_plus_overpay"]
    ELSE IF res.b # <<>> THEN [found |-> res.b, mode |-> "fedwire_name_match"]
    ELSE IF res.c # <<>> THEN [found |-> res.c, mode |-> "repayment_sum"]
    ELSE [found |-> <<>>, mode |-> "None"]

\* the step of the credit loop gives the claim the credit of `first`, or reports
\* the claim unmatched when no strategy found one
StepFollows(r, first) ==
    IF first.found = <<>>
    THEN unmatched_claims' = Append(unmatched_claims, r.claim_id) /\ c_match' = c_match
    ELSE /\ unmatched_claims' = unmatched_claims
         /\ Len(c_match') = Len(c_match) + 1
         /\ c_match'[Len(c_match')].claim_id = r.claim_id
         /\ c_match'[Len(c_match')].chase_index = first.found[1]
         /\ c_match'[Len(c_match')].match_type = first.mode

\* C3 First successful strategy wins: a claim with a positive repayment total
\* receives a credit match record from the first of Strategy A, B, C that finds
\* an unconsumed qualifying credit, with match_mode naming that strategy, and is
\* reported unmatched only if none of them finds one, whatever the row position
\* of the credit in the bank statement.
FirstStrategyWins ==
    [][ (pc = "credits" /\ roll_pos <= Len(roll_sorted))
        => \A r \in {roll_sorted[roll_pos]} :
              r.repayment_sum > 0
              => StepFollows(r, FirstSuccessful(StrategyResults(chase, r, used_credit))) ]_vars

\* the rows of the ach_id group carry two or more distinct non-empty claim ids
\* or two or more distinct base claimant names
SpansSeveral(group) ==
    Cardinality(UniqueClaimIds(group)) > 1 \/ Cardinality(BaseClaimants(group)) > 1

\* C4 Dedup conflict invariant: for every ach_id group spanning two or more
\* distinct claim ids or base claimants, dedupe_by_ach_id drops zero rows of the
\* group and emits one ACHConflict for that ach_id listing every row of the group.
ConflictGroupsKept ==
    pc = "deduped" =>
        \A a \in Range(AchIds) :
            SpansSeveral(AchGroup(r2d, a))
            => /\ AchGroup(r2d_dedup, a) = AchGroup(r2d, a)
               /\ Cardinality({n \in DOMAIN ach_conflicts : ach_conflicts[n].ach_id = a}) = 1
               /\ \A n \in DOMAIN ach_conflicts :
                     ach_conflicts[n].ach_id = a
                     => ach_conflicts[n].claims = AchGroup(r2d, a)

\* the row carries the same non-empty ach_id and the same claim_id as row
SameTransfer(row, other) ==
    HasAchId(row) /\ other.ach_id = row.ach_id /\ other.claim_id = row.claim_id

\* the number of times the row occurs in the table
Occurrences(df, row) == Cardinality({i \in DOMAIN df : df[i] = row})

\* C5 Dedup true-duplicate invariant: for every (ach_id, claim_id) with non-empty
\* ach_id exactly one row survives and it is the first such row of the input;
\* rows with an empty ach_id are never dropped; the removed-count equals the
\* number of input rows minus the number of output rows.
TrueDuplicatesCollapsed ==
    pc = "deduped" =>
        /\ \A i \in DOMAIN r2d :
              (HasAchId(r2d[i]) /\ \A j \in 1..(i - 1) : ~SameTransfer(r2d[i], r2d[j]))
              => /\ Cardinality({n \in DOMAIN r2d_dedup :
                                    SameTransfer(r2d[i], r2d_dedup[n])}) = 1
                 /\ \A n \in DOMAIN r2d_dedup :
                       SameTransfer(r2d[i], r2d_dedup[n]) => r2d_dedup[n] = r2d[i]
        /\ \A i \in DOMAIN r2d :
              ~HasAchId(r2d[i]) => Occurrences(r2d_dedup, r2d[i]) = Occurrences(r2d, r2d[i])
        /\ dup_removed = Len(r2d) - Len(r2d_dedup)

\* a ledger with a true duplicate whose later row differs from the first, and a
\* row without ach_id
TrueDuplicatesWitness ==
    /\ pc = "deduped"
    /\ dup_removed > 0
    /\ \E i, j \in DOMAIN r2d : i < j /\ SameTransfer(r2d[i], r2d[j]) /\ r2d[i] # r2d[j]
    /\ \E i \in DOMAIN r2d : ~HasAchId(r2d[i])

\* C6 Overpay linkage: a credit match record of the overpay strategy has
\* overpay_amount > AMOUNT_TOL and a credit amount within AMOUNT_TOL of
\* repayment_sum + overpay_amount, and a linked companion debit has an absolute
\* amount within AMOUNT_TOL of overpay_amount; a record of another strategy has
\* overpay_amount 0 and no linked debit.
OverpayLinkage ==
    \A n \in DOMAIN c_match :
        IF c_match[n].match_type = "repayment_sum_plus_overpay"
        THEN /\ c_match[n].overpay_amount > AMOUNT_TOL
             /\ Abs(c_match[n].chase_credit_amount
                    - (c_match[n].repayment_sum + c_match[n].overpay_amount)) <= AMOUNT_TOL
             /\ \A k \in Range(c_match[n].overpay_debit) :
                   Abs(Abs(At(chase, k).amount) - c_match[n].overpay_amount) <= AMOUNT_TOL
        ELSE c_match[n].overpay_amount = 0 /\ c_match[n].overpay_debit = <<>>

\* an overpay-strategy record with a linked debit next to a record of another strategy
OverpayLinkageWitness ==
    /\ \E n \in DOMAIN c_match :
          /\ c_match[n].match_type = "repayment_sum_plus_overpay"
          /\ c_match[n].overpay_debit # <<>>
    /\ \E n \in DOMAIN c_match : c_match[n].match_type # "repayment_sum_plus_overpay"

\* C7 Overpay links are never double-assigned: no bank debit is the companion
\* overpay debit of more than one credit match record, whether it was found near
\* the credit date or through the ref_date fallback.
OverpayLinksDistinct ==
    \A m, n \in DOMAIN c_match :
        (m # n /\ c_match[m].overpay_debit # <<>>)
        => c_match[m].overpay_debit # c_match[n].overpay_debit

\* two overpay-strategy records: the first took the one debit of the overpaid
\* amount, the second was left without a companion
OverpayLinksWitness ==
    /\ Len(c_match) = 2
    /\ c_match[1].match_type = "repayment_sum_plus_overpay"
    /\ c_match[1].overpay_debit # <<>>
    /\ c_match[2].match_type = "repayment_sum_plus_overpay"
    /\ c_match[2].overpay_amount = c_match[1].overpay_amount
    /\ c_match[2].overpay_debit = <<>>

\* the bank credits that carry a ReconTag
IsTaggedCredit(k) == is_credit(At(chase, k)) /\ HasTag(At(chase, k))

\* the amounts of the bank credits tagged with the claim, summed
TaggedCreditTotal(claim) ==
    SumOver(chase, LAMBDA t : IF is_credit(t) /\ t.recon_tag = claim THEN t.amount ELSE 0)

\* C8 ReconTag priority: a bank credit tagged with the claim_id of a ledger claim
\* never appears in CHASE_Unmatched_Credit, and its amount is added to the
\* claim's Bank Credits (Effective) on top of any automatic credit match.
ReconTagPriority ==
    /\ [](pc = "done" =>
            \A k \in Range(Labels(chase)) :
                IsTaggedCredit(k) => k \notin credits_unmatched_final)
    /\ [][pc = "tag_credits" =>
            \A c \in DOMAIN per_claim_rev :
                per_claim_rev'[c].bank_credits_effective
                    = per_claim_rev[c].bank_credits_effective + TaggedCreditTotal(c)]_vars

\* a finished run in which a claim has an automatic credit match and a tagged credit
ReconTagPriorityWitness ==
    /\ pc = "done"
    /\ \E k \in Range(Labels(chase)) : \E n \in DOMAIN c_match :
          /\ IsTaggedCredit(k)
          /\ At(chase, k).recon_tag = c_match[n].claim_id
          /\ per_claim_rev[c_match[n].claim_id].bank_credits_effective
                >= c_match[n].chase_credit_amount + At(chase, k).amount

\* C9 Tagged credits are reserved: no credit match record of any strategy
\* consumes a bank credit that carries a ReconTag.
TaggedCreditsReserved ==
    \A n \in DOMAIN c_match : ~HasTag(At(chase, c_match[n].chase_index))

\* a finished run that left a claim unmatched although a tagged credit of its
\* repayment amount was in the statement, another claim being matched
TaggedCreditsReservedWitness ==
    /\ pc = "done"
    /\ c_match # <<>>
    /\ \E k \in Range(Labels(chase)) : \E n \in DOMAIN per_claim_rev :
          /\ IsTaggedCredit(k)
          /\ n \in Range(unmatched_claims)
          /\ per_claim_rev[n].repayment_sum = At(chase, k).amount

\* the pair (claim, |amount|) of the debit is an overpay adjustment of the credit matcher
InOverAdj(claim, t) ==
    \E n \in DOMAIN over_adj :
        over_adj[n].claim_id = claim /\ over_adj[n].overpay_amount = Abs(t.amount)

\* |amount| summed over the debits tagged with the claim that are not in over_adj
TaggedDebitTotal(claim) ==
    SumOver(chase, LAMBDA t :
        IF is_debit(t) /\ t.recon_tag = claim /\ ~InOverAdj(claim, t)
        THEN Abs(t.amount) ELSE 0)

\* C10 Tagged debits: the tag stage subtracts from a claim's Bank Credits
\* (Effective) exactly the sum of |amount| over the bank debits tagged with the
\* claim whose pair (claim, |amount|) is not the (claim_id, overpay_amount) of an
\* overpay adjustment; a tagged debit whose pair is one is not subtracted again.
TaggedDebitsSubtracted ==
    [][pc = "tag_debits" =>
        \A c \in DOMAIN per_claim_rev :
            per_claim_rev'[c].bank_credits_effective
                = per_claim_rev[c].bank_credits_effective - TaggedDebitTotal(c)]_vars

\* a finished run with a tagged debit that an overpay adjustment already covers
TaggedDebitsWitness ==
    /\ pc = "done"
    /\ \E k \in Range(Labels(chase)) :
          /\ is_debit(At(chase, k))
          /\ At(chase, k).recon_tag \in DOMAIN per_claim_rev
          /\ InOverAdj(At(chase, k).recon_tag, At(chase, k))

----
\* C12 Notes matcher isolation: a debit claimed for a debit_expected note event
\* is never a bank debit that the debit matcher consumed or that the credit
\* matcher linked as a companion overpay debit, and no bank debit is claimed for
\* two note events.
NoteDebitsIsolated ==
    /\ \A n \in DOMAIN note_d :
          note_d[n].chase_index \notin used_debit_idx \cup used_overpay_debit
    /\ \A m, n \in DOMAIN note_d :
          m # n => note_d[m].chase_index # note_d[n].chase_index

----
\* C15 Revenue identities: in every row of the final per-claim table, after the
\* tagged credits were added and the tagged debits subtracted, Bank-based Revenue
\* is Bank Credits (Effective) minus Bank Funder Debits, Book Revenue is
\* repayment_sum minus amount_to_funder_sum, and Check is Bank-based Revenue
\* minus Book Revenue.
RevenueIdentities ==
    pc = "done" =>
        \A c \in DOMAIN per_claim_rev :
            LET row == per_claim_rev[c]
            IN  /\ row.bank_based_revenue
                      = row.bank_credits_effective - row.bank_funder_debits
                /\ row.book_revenue = row.repayment_sum - row.amount_to_funder_sum
                /\ row.check = row.bank_based_revenue - row.book_revenue

\* a final table with a claim that has a credit match and funder debits, whose
\* credits were reduced in the tag stage and whose bank-based and book revenue
\* differ
RevenueIdentitiesWitness ==
    /\ pc = "done"
    /\ \E c \in DOMAIN per_claim_rev :
          /\ \E n \in DOMAIN c_match : c_match[n].claim_id = c
          /\ tagged_debit_sum_by_claim(chase, over_adj, c) > 0
          /\ per_claim_rev[c].bank_funder_debits > 0
          /\ per_claim_rev[c].amount_to_funder_sum > 0
          /\ per_claim_rev[c].check # 0

----
\* the report rows of one credit_expected event of a claim
ReportRowsOf(rows, ev) ==
    SelectSeq(rows, LAMBDA row : /\ row.claim_id = ev.claim.claim_id
                                 /\ row.expected_amount = ev.event.amount)

CreditEventsOf(ledger, run_date) ==
    SelectSeq(NoteEvents(ledger, run_date), LAMBDA ev : ev.event.kind = "credit_expected")

IsTagOfSomeCredit(claim) ==
    \E k \in Range(Labels(chase)) :
        is_credit(At(chase, k)) /\ At(chase, k).recon_tag = claim

\* C13 credit_expected note events are never auto-matched: the notes stage
\* returns no note-derived credit match and no newly used credit and leaves the
\* consumed credits unchanged; each credit_expected event yields report rows
\* only: rows of status MATCHED, at least one, when its claim is the recon_tag
\* of some credit, otherwise exactly one row, of status SUGGESTED; and every
\* report row belongs to a credit_expected event.
CreditEventsOnlyReported ==
    [][pc = "notes" =>
        /\ note_c' = <<>>
        /\ newly_used_credit' = {}
        /\ used_credit' = used_credit
        /\ credits_unmatched_final' = credits_unmatched_final
        /\ \A n \in DOMAIN CreditEventsOf(r2d, today) :
              LET ev == CreditEventsOf(r2d, today)[n]
                  rows == ReportRowsOf(missing_recontags', ev)
              IN  IF IsTagOfSomeCredit(ev.claim.claim_id)
                  THEN /\ Len(rows) >= 1
                       /\ \A m \in DOMAIN rows : rows[m].status = "MATCHED"
                  ELSE /\ Len(rows) = 1
                       /\ rows[1].status = "SUGGESTED"
        /\ \A m \in DOMAIN missing_recontags' :
              \E n \in DOMAIN CreditEventsOf(r2d, today) :
                  LET ev == CreditEventsOf(r2d, today)[n]
                  IN  /\ missing_recontags'[m].claim_id = ev.claim.claim_id
                      /\ missing_recontags'[m].expected_amount = ev.event.amount]_vars

\* the notes stage is over and suggested a tag for an unconsumed credit that
\* fits the announced amount; the credit is still unmatched
SuggestedWitness ==
    /\ pc = "revenue"
    /\ \E m \in DOMAIN missing_recontags :
          /\ missing_recontags[m].status = "SUGGESTED"
          /\ missing_recontags[m].potential_chase_credit
                = missing_recontags[m].expected_amount
    /\ credits_unmatched_final # {}

----
\* C16 Determinism: the debit matches, credit matches, overpay links and
\* note-derived debit matches of a run are those of every run on the same ledger
\* and bank statement, whatever the date the run is executed on.  The first
\* three are computed from the ledger and the bank statement alone; the
\* note-derived debit matches of this run are compared with those a run on
\* every other date computes from the same ledger and bank statement.
RunDateIndependent ==
    pc = "revenue" =>
        \A other \in RunDates :
            match_from_notes(r2d, chase, used_credit, used_debit_idx, other).note_d
                = note_d

----
\* the credit the strategy chain finds for the claim while no credit is consumed
QualifyingCredit(r) == FirstSuccessful(StrategyResults(chase, r, {})).found

\* the claim qualifies for exactly one credit: once it is consumed none is found
SingleCredit(r) ==
    /\ QualifyingCredit(r) # <<>>
    /\ FirstSuccessful(StrategyResults(chase, r, Range(QualifyingCredit(r)))).found = <<>>

\* two claims with the same positive repayment total and the same single credit
Contested(a, b) ==
    /\ a.repayment_sum = b.repayment_sum
    /\ a.repayment_sum > 0
    /\ SingleCredit(a)
    /\ SingleCredit(b)
    /\ QualifyingCredit(a) = QualifyingCredit(b)

\* claim m of the roll-up has the smaller difference, or the same and comes first
HasPriority(roll, m, n) ==
    \/ transferred_repayment_diff(roll[m]) < transferred_repayment_diff(roll[n])
    \/ /\ transferred_repayment_diff(roll[m]) = transferred_repayment_diff(roll[n])
       /\ m < n

PositionOf(sorted, claim) == CHOOSE i \in DOMAIN sorted : sorted[i].claim_id = claim

\* C11 Priority sort: of two claims with equal repayment total that both qualify
\* for the same single bank credit, the one with the smaller
\* |repayment_sum - amount_transferred_sum| (on a tie the one that comes first
\* in the input) is processed first by the credit loop and, when the loop is
\* over, holds the credit match with that credit, the other one being unmatched.
PriorityClaimGetsCredit ==
    (pc = "credits" /\ roll_pos > Len(roll_sorted)) =>
        \A roll \in {_prepare_credit_matching_data(r2d)} :
        \A m, n \in DOMAIN roll :
            (m # n /\ Contested(roll[m], roll[n]) /\ HasPriority(roll, m, n))
            => /\ PositionOf(roll_sorted, roll[m].claim_id)
                    < PositionOf(roll_sorted, roll[n].claim_id)
               /\ \E i \in DOMAIN c_match :
                      /\ c_match[i].claim_id = roll[m].claim_id
                      /\ c_match[i].chase_index = QualifyingCredit(roll[m])[1]
               /\ \E i \in DOMAIN unmatched_claims :
                      unmatched_claims[i] = roll[n].claim_id

----
\* the ledger entry and the bank debit of the worked example: 1000.00 transferred,
\* window date 10 January; a debit of -1000.00 posted 9 January with a transfer hint
ExampleTransfer ==
    /\ Len(r2d) = 1
    /\ r2d[1].amount_transferred = 100000
    /\ r2d[1].window_date = 10
    /\ Len(chase) = 1
    /\ chase[1].amount = -100000
    /\ chase[1].posting_date = 9
    /\ has_hint(chase[1])

\* C14 Debit confidence (in hundredths): every debit match record has confidence
\* min(50 + 30 if the description of its debit has a transfer hint + 20 if the
\* debit was posted at most one day from the window date, 99), a value of
\* {50, 70, 80, 99}; the ledger entry and bank debit of the worked example yield
\* exactly one debit match, of confidence 99 and match_type amount+window(+hints).
DebitConfidence ==
    pc = "credits" =>
        /\ \A n \in DOMAIN d_match :
              LET t == At(chase, d_match[n].chase_index)
                  near == Abs(t.posting_date - d_match[n].r2d_date) <= 1
              IN  /\ d_match[n].confidence
                        = Min2(50 + (IF has_hint(t) THEN 30 ELSE 0)
                                  + (IF near THEN 20 ELSE 0), 99)
                  /\ d_match[n].confidence \in {50, 70, 80, 99}
        /\ ExampleTransfer =>
              /\ Len(d_match) = 1
              /\ d_match[1].confidence = 99
              /\ d_match[1].match_type = "amount+window(+hints)"

\* the debit matcher has run on the worked example and matched its debit
DebitConfidenceWitness ==
    /\ pc = "credits"
    /\ ExampleTransfer
    /\ Len(d_match) = 1
    /\ d_match[1].chase_index = 0

----
\* "req. rem. $X", "requested rem $X", "req remaining $X" or "requested
\* remaining $X" at word i of the note
RequestedRemainingAt(text, i) ==
    /\ TwoWords(text, i, {"req", "req.", "requested"}, RemWords)
    /\ i + 2 <= Len(text)
    /\ IsDollar(text[i + 2])

CreditEvents(evs) == SelectSeq(evs, LAMBDA e : e.kind = "credit_expected")

\* C17 Requested-remaining rule: for a note with a "requested remaining $X"
\* phrase and no "remaining repayment received" phrase extract_note_events
\* yields no event of amount X, credit_expected or other; the note
\* "... req. rem. $46.76" yields no credit_expected event.
RequestedRemainingIgnored ==
    pc = "extracted" =>
        /\ \A text \in {r2d[1].notes} : \A i \in DOMAIN text :
              (RequestedRemainingAt(text, i) /\ ~has_rem_received(text))
              => \A n \in DOMAIN note_events :
                    note_events[n].amount # DollarValue(text[i + 2])
        /\ r2d[1].notes = MiakleneNote => CreditEvents(note_events) = <<>>

\* C18 Gerald Parks: for the note "Rem repayment rcvd to send funder $206.94 ...
\* underpaid by $212.65, req. rem. amount" (and the note of the regression test
\* it abbreviates) extract_note_events yields exactly one credit_expected event,
\* of amount 206.94.
GeraldCredit ==
    (pc = "extracted" /\ r2d[1].notes \in {GeraldNote, GeraldNoteFull}) =>
        /\ Len(CreditEvents(note_events)) = 1
        /\ CreditEvents(note_events)[1].amount = 20694

\* C19 Karis Reed: for the note "Received rem repayment to send funder $30.22 ...
\* req rem. $46.76." (and the note of the regression test it abbreviates)
\* extract_note_events yields exactly one credit_expected event, of amount
\* 30.22, and no credit_expected event of amount 46.76.
KarisCredit ==
    (pc = "extracted" /\ r2d[1].notes \in {KarisNote, KarisNoteFull}) =>
        /\ Len(CreditEvents(note_events)) = 1
        /\ CreditEvents(note_events)[1].amount = 3022
        /\ \A n \in DOMAIN note_events :
              note_events[n].kind = "credit_expected" => note_events[n].amount # 4676

----
\* the claim_id, the window_date or the amount field is absent from the sheet
RequiredFieldAbsent ==
    \/ "claim_id" \notin sheet_columns
    \/ "amount_transferred" \notin sheet_columns
    \/ sheet_columns \cap {"likely_arrived", "transfer_initiated"} = {}

\* C20 Fail fast on missing required fields: when the claim_id, window_date or
\* amount field is absent from the ledger input the run aborts with an error and
\* produces no match output: it does not go on, with the affected entries
\* treated as unmatched, to its end, where the match output is written.
FailFast == RequiredFieldAbsent => pc # "done"

----
\* the debit matcher has produced its outputs
DebitMatcherDone ==
    pc \in {"credits", "notes", "revenue", "tag_credits", "tag_debits", "done"}

\* the deduplicated ledger entry i has a debit MatchRecord
InDebitMatches(i) == \E n \in DOMAIN d_match : d_match[n].r2d_index = i

\* the deduplicated ledger entry i is listed among the unmatched ledger entries
InUnmatchedLedger(i) == \E n \in DOMAIN d_un : d_un[n] = i

\* C21 Ledger partition: after the debit matcher every deduplicated ledger entry
\* is in exactly one of the debit MatchRecords and the unmatched ledger
\* entries, also an entry without a match whose claim_id was matched through
\* another entry.
LedgerPartition ==
    DebitMatcherDone =>
        \A i \in 0..(Len(r2d_dedup) - 1) : InDebitMatches(i) # InUnmatchedLedger(i)

----
\* (entry i, debit k) is a pair the first loop of the debit matcher collects
IsCandidatePair(i, k) ==
    /\ ~LacksAmountOrDate(r2d_dedup[i + 1])
    /\ is_debit(chase[k + 1])
    /\ Abs(Abs(chase[k + 1].amount) - Abs(r2d_dedup[i + 1].amount_transferred))
           <= AMOUNT_TOL
    /\ Abs(chase[k + 1].posting_date - r2d_dedup[i + 1].window_date)
           <= DATE_WINDOW_DAYS

PairDelta(i, k) == Abs(chase[k + 1].posting_date - r2d_dedup[i + 1].window_date)
PairConfidence(i, k) == Confidence(chase[k + 1], PairDelta(i, k))

\* pair (i, k) sorts strictly before pair (j, l): confidence descending, then
\* date_delta ascending
SortsStrictlyBefore(i, k, j, l) ==
    \/ PairConfidence(i, k) > PairConfidence(j, l)
    \/ PairConfidence(i, k) = PairConfidence(j, l) /\ PairDelta(i, k) < PairDelta(j, l)

\* pair (i, k) sorts no later than pair (j, l): ties fall back to the order of
\* insertion, entry by entry and debit by debit
SortsNoLater(i, k, j, l) ==
    \/ SortsStrictlyBefore(i, k, j, l)
    \/ /\ ~SortsStrictlyBefore(j, l, i, k)
       /\ (i < j \/ (i = j /\ k <= l))

\* pass 1 accepted the pair (i, k)
AcceptedInPass1(i, k) ==
    \E n \in DOMAIN d_match :
        /\ d_match[n].match_type = "amount+window(+hints)"
        /\ d_match[n].r2d_index = i
        /\ d_match[n].chase_index = k

EntryLabels == 0..(Len(r2d_dedup) - 1)
BankLabels == 0..(Len(chase) - 1)

\* C22 Pass 1 global greedy assignment: the pass-1 matches are the greedy walk
\* of all candidate pairs of the batch in the order (confidence descending,
\* date_delta ascending, insertion order): the accepted pairs are candidate
\* pairs no two of which share an entry or a debit, and every candidate pair
\* not accepted has its entry or its debit consumed by an accepted pair that
\* sorts no later; so an earlier entry takes a debit from a later entry whose
\* pair sorts strictly earlier only if the later entry was matched by a pair
\* sorting no later.
GlobalGreedy ==
    DebitMatcherDone =>
        /\ \A i \in EntryLabels, k \in BankLabels :
              AcceptedInPass1(i, k) =>
                 /\ IsCandidatePair(i, k)
                 /\ \A j \in EntryLabels, l \in BankLabels :
                       (AcceptedInPass1(j, l) /\ (j = i \/ l = k)) => (j = i /\ l = k)
        /\ \A i \in EntryLabels, k \in BankLabels :
              (IsCandidatePair(i, k) /\ ~AcceptedInPass1(i, k)) =>
                 \E j \in EntryLabels, l \in BankLabels :
                    /\ AcceptedInPass1(j, l)
                    /\ j = i \/ l = k
                    /\ SortsNoLater(j, l, i, k)
        /\ \A i \in EntryLabels, j \in EntryLabels, k \in BankLabels :
              (i < j /\ AcceptedInPass1(i, k) /\ IsCandidatePair(j, k)
                 /\ SortsStrictlyBefore(j, k, i, k)) =>
                 \E l \in BankLabels :
                    AcceptedInPass1(j, l) /\ SortsNoLater(j, l, i, k)

\* a later entry gets the debit that is also a candidate of an earlier entry,
\* because its pair sorts strictly earlier; the earlier entry stays without a
\* pass-1 match
GlobalGreedyWitness ==
    /\ DebitMatcherDone
    /\ \E i \in EntryLabels, j \in EntryLabels, k \in BankLabels :
          /\ i < j
          /\ IsCandidatePair(i, k)
          /\ AcceptedInPass1(j, k)
          /\ SortsStrictlyBefore(j, k, i, k)
          /\ \A l \in BankLabels : ~AcceptedInPass1(i, l)

----
\* C23 Dedup preserves original order: the deduplicated ledger lists the
\* surviving rows in the relative order they have in the input, a row without
\* ach_id that precedes a row with ach_id included: the output is the input
\* with rows left out.
DedupKeepsOrder ==
    pc = "deduped" =>
        \E f \in [DOMAIN r2d_dedup -> DOMAIN r2d] :
            /\ \A n \in DOMAIN r2d_dedup : r2d_dedup[n] = r2d[f[n]]
            /\ \A m \in DOMAIN r2d_dedup, n \in DOMAIN r2d_dedup :
                  m < n => f[m] < f[n]

----
\* the debit_expected events of the run, each with its claim
DebitEvents ==
    SelectSeq(NoteEvents(r2d, today), LAMBDA ev : ev.event.kind = "debit_expected")

\* the debits the debit matcher left, within tolerance of the amount and
\* within days of the centre date
DebitsInNoteWindow(amount, centre, days) ==
    {k \in BankLabels :
        /\ is_debit(chase[k + 1])
        /\ k \notin used_debit_idx
        /\ Abs(Abs(chase[k + 1].amount) - amount) <= AMOUNT_TOL
        /\ Abs(chase[k + 1].posting_date - centre) <= days}

\* the notes matcher claimed for the event a debit of pool than which no debit
\* of pool lies nearer to centre
ClaimsNearest(ev, pool, centre) ==
    \E n \in DOMAIN note_d :
        /\ note_d[n].claim_id = ev.claim.claim_id
        /\ note_d[n].chase_index \in pool
        /\ \A l \in pool :
              Abs(chase[note_d[n].chase_index + 1].posting_date - centre)
                 <= Abs(chase[l + 1].posting_date - centre)

\* C24 Notes debit matching picks the nearest debit: in a run whose notes hold
\* one debit_expected event, the debit claimed for the event is, among the
\* unconsumed debits within tolerance of the event amount and within 7 days of
\* the anchor date, the one posted nearest to the anchor date; when there is
\* none, among those within 10 days of the claim's ref_date the one posted
\* nearest to ref_date.
NearestNoteDebit ==
    (pc \in {"revenue", "tag_credits", "tag_debits", "done"} /\ Len(DebitEvents) = 1) =>
        \A ev \in {DebitEvents[1]} :
            \A first \in {IF ev.event.anchor = NaT THEN {}
                          ELSE DebitsInNoteWindow(ev.event.amount, ev.event.anchor,
                                                  NOTE_WINDOW_DAYS)} :
                \A wide \in {IF ev.claim.ref_date = NaT THEN {}
                             ELSE DebitsInNoteWindow(ev.event.amount, ev.claim.ref_date,
                                     NOTE_WINDOW_DAYS + NOTE_WINDOW_DAYS_EXTENDED)} :
                    /\ first # {} => ClaimsNearest(ev, first, ev.event.anchor)
                    /\ (ev.event.anchor # NaT /\ first = {} /\ wide # {}) =>
                          ClaimsNearest(ev, wide, ev.claim.ref_date)

----
\* the positions of roll_sorted the credit loop has gone through
ProcessedClaims ==
    IF pc = "credits" THEN 1..(roll_pos - 1)
    ELSE IF pc \in {"notes", "revenue", "tag_credits", "tag_debits", "done"}
         THEN DOMAIN roll_sorted
    ELSE {}

\* a bank statement of one credit posted on the given day
ProbeCredit(day) == <<Txn(day, 10000, <<"DEPOSIT">>, 0)>>

\* C25 Overpay widens the credit window: for a claim the credit loop has gone
\* through whose parsed overpay amount exceeds the tolerance, the window of
\* candidate credits around ref_date is strictly wider than the standard 10
\* days: a credit posted 11 days after ref_date, outside the window of a claim
\* without overpay, is among the candidates of the claim.
OverpayWidensWindow ==
    \A n \in ProcessedClaims :
        (OverX(roll_sorted[n]) > AMOUNT_TOL /\ roll_sorted[n].ref_date # NaT) =>
            \A probe \in {ProbeCredit(roll_sorted[n].ref_date + DATE_WINDOW_DAYS + 1)} :
                /\ CreditCand(probe, Labels(probe), roll_sorted[n].ref_date,
                              WinDays(0)) = <<>>
                /\ CreditCand(probe, Labels(probe), roll_sorted[n].ref_date,
                              WinDays(OverX(roll_sorted[n]))) # <<>>

----
\* the roll-up row of the claim of a credit MatchRecord
RollRowOfRecord(rec) == roll_sorted[PositionOf(roll_sorted, rec.claim_id)]

\* the credits that qualified when the n-th credit MatchRecord was made: not
\* tagged, not consumed by an earlier record, within tolerance of the target of
\* the record's strategy and inside the date window of the claim
QualifyingCredits(n, r) ==
    {k \in BankLabels :
        /\ is_credit(chase[k + 1])
        /\ ~HasTag(chase[k + 1])
        /\ \A m \in 1..(n - 1) : c_match[m].chase_index # k
        /\ Abs(chase[k + 1].amount - (c_match[n].repayment_sum + c_match[n].overpay_amount))
              <= AMOUNT_TOL
        /\ (r.ref_date = NaT
            \/ Abs(chase[k + 1].posting_date - r.ref_date) <= WinDays(OverX(r)))}

WindowStrategies == {"repayment_sum_plus_overpay", "repayment_sum"}

\* C26 Window strategies pick the nearest credit: the credit of a MatchRecord
\* made by Strategy A or Strategy C is, among the unconsumed credits inside the
\* date window whose amount is within tolerance of the target, one posted
\* nearest to the claim's ref_date, also when the candidates differ from the
\* target by different amounts.
NearestCreditChosen ==
    \A n \in DOMAIN c_match :
        c_match[n].match_type \in WindowStrategies =>
            \A r \in {RollRowOfRecord(c_match[n])} :
                \A l \in QualifyingCredits(n, r) :
                    DateDelta(chase[c_match[n].chase_index + 1], r.ref_date)
                       <= DateDelta(chase[l + 1], r.ref_date)

----
\* debit k is matched for the claim by the debit matcher and counted by the
\* revenue aggregator (the row is not filtered out as an overpay adjustment)
CountedAsMatchedDebit(k, claim) ==
    \E n \in DOMAIN d_match :
        /\ d_match[n].chase_index = k
        /\ d_match[n].claim_id = claim
        /\ IsNotOverpayAdj(d_match[n], over_adj)

\* debit k is matched for the claim by the notes matcher
CountedAsNoteDebit(k, claim) ==
    \E n \in DOMAIN note_d : note_d[n].chase_index = k /\ note_d[n].claim_id = claim

\* debit k is subtracted for the claim as a ReconTag debit
SubtractedAsTaggedDebit(k, claim) ==
    /\ chase[k + 1].recon_tag = claim
    /\ \E n \in DOMAIN RemainingTaggedDebits(chase, over_adj) :
          RemainingTaggedDebits(chase, over_adj)[n] = k

\* debit k is the debit of an overpay adjustment of the claim
SubtractedAsOverpayAdj(k, claim) ==
    \E n \in DOMAIN c_match :
        /\ c_match[n].claim_id = claim
        /\ c_match[n].overpay_amount > AMOUNT_TOL
        /\ c_match[n].overpay_debit = <<k>>

\* C27 No bank debit reduces a claim's Bank-based Revenue more than once: at the
\* end of a run a debit matched for a claim by the debit matcher or by the
\* notes matcher, and so counted in the claim's row, is not also subtracted for
\* that claim as a ReconTag debit or as an overpay adjustment.
NoDebitCountedTwice ==
    pc = "done" =>
        \A k \in BankLabels, claim \in DOMAIN per_claim_rev :
            (CountedAsMatchedDebit(k, claim) \/ CountedAsNoteDebit(k, claim)) =>
                /\ ~SubtractedAsTaggedDebit(k, claim)
                /\ ~SubtractedAsOverpayAdj(k, claim)

----
\* the number of credit MatchRecords that consume credit k
MatchRecordsOf(k) == Cardinality({n \in DOMAIN c_match : c_match[n].chase_index = k})

\* credit k carries a ReconTag and the per-claim revenue table has a row of the
\* tagged claim, to whose Bank Credits (Effective) the credit was added
AddedToTaggedClaim(k) ==
    HasTag(chase[k + 1]) /\ chase[k + 1].recon_tag \in DOMAIN per_claim_rev

\* credit k is among the rows of CHASE_Unmatched_Credit
ListedUnmatchedCredit(k) == k \in credits_unmatched_final

\* C28 Every bank credit is accounted for exactly once at the end of a run: it
\* is consumed by one credit MatchRecord, or it carries a recon_tag and was
\* added to the Bank Credits (Effective) of a claim of the per-claim revenue
\* table, or it is listed as CHASE_Unmatched_Credit; exactly one of the three
\* holds, whatever the credit's recon_tag.
EveryCreditAccounted ==
    pc = "done" =>
        \A k \in BankLabels :
            is_credit(chase[k + 1]) =>
                /\ MatchRecordsOf(k) <= 1
                /\ Cardinality({way \in {"matched", "tagged", "unmatched"} :
                       \/ way = "matched" /\ MatchRecordsOf(k) = 1
                       \/ way = "tagged" /\ AddedToTaggedClaim(k)
                       \/ way = "unmatched" /\ ListedUnmatchedCredit(k)}) = 1

----
\* C29 A bank debit that carries a recon_tag never appears among the
\* CHASE_Unmatched_Debit rows at the end of a run, also a tagged debit left out
\* of the subtraction because an overpay adjustment of its claim and amount
\* was already processed.
TaggedDebitsHidden ==
    pc = "done" => \A k \in debits_orphans_final : ~HasTag(chase[k + 1])

----
\* the distance in days between the debit and the window date of a debit
\* MatchRecord, taken from the bank statement and the deduplicated ledger
RecordDelta(rec) ==
    Abs(chase[rec.chase_index + 1].posting_date
        - r2d_dedup[rec.r2d_index + 1].window_date)

\* C30 Every pass-2 debit match (match_type "amount+extended_window") links a
\* ledger entry to a debit posted more than 10 and at most 30 days from the
\* entry's window_date, every candidate within 10 days being consumed in pass
\* 1; its confidence is 0.50 or 0.80, never with the date-proximity bonus.
Pass2OutsideStandardWindow ==
    DebitMatcherDone =>
        \A n \in DOMAIN d_match :
            d_match[n].match_type = "amount+extended_window" =>
                /\ RecordDelta(d_match[n]) > DATE_WINDOW_DAYS
                /\ RecordDelta(d_match[n]) <= DATE_WINDOW_DAYS_WIDE
                /\ d_match[n].confidence \in {50, 80}
                /\ \A k \in BankLabels :
                      IsCandidatePair(d_match[n].r2d_index, k) =>
                          \E m \in DOMAIN d_match :
                              d_match[m].chase_index = k /\ m # n

\* an entry whose only debit within 10 days went to another entry in pass 1 is
\* matched in pass 2 to a debit farther away
Pass2Witness ==
    /\ DebitMatcherDone
    /\ \E n \in DOMAIN d_match :
          /\ d_match[n].match_type = "amount+extended_window"
          /\ \E k \in BankLabels : IsCandidatePair(d_match[n].r2d_index, k)

====
